---- MODULE Spec2Model ----
(***************************************************************************)
(* Book Requests for Readarr: the Readarr client (readarrClient.ts).       *)
(*                                                                         *)
(* Strings are sequences of one-character strings, so that trim,           *)
(* lower-casing, substring search and key construction are computed.       *)
(* A JSON object is a TLA+ record whose DOMAIN holds the fields that are   *)
(* present; an absent field reads as Undefined.                            *)
(***************************************************************************)
EXTENDS Integers, Sequences, FiniteSets, TLC

(***************************************************************************)
(* Bounds                                                                  *)
(***************************************************************************)
MaxRequests == 2
MaxTicks == 3
MaxRecords == 3

(***************************************************************************)
(* JavaScript values                                                       *)
(***************************************************************************)
Undefined == <<"undefined">>

Get(obj, field) == IF field \in DOMAIN obj THEN obj[field] ELSE Undefined

\* JavaScript truthiness of a string-or-undefined value
Truthy(value) == value # Undefined /\ value # <<>>

\* a || b on string-or-undefined values
OrElse(a, b) == IF Truthy(a) THEN a ELSE b

\* String(value ?? "")
ToStr(value) == IF value = Undefined THEN <<>> ELSE value

ToLowerChar(c) ==
    CASE c = "A" -> "a"
      [] c = "D" -> "d"
      [] c = "H" -> "h"
      [] c = "T" -> "t"
      [] c = "U" -> "u"
      [] OTHER -> c

ToLowerCase(s) == [i \in 1..Len(s) |-> ToLowerChar(s[i])]

RECURSIVE TrimStart(_)
TrimStart(s) ==
    IF s # <<>> /\ Head(s) = " " THEN TrimStart(Tail(s)) ELSE s

RECURSIVE TrimEnd(_)
TrimEnd(s) ==
    IF s # <<>> /\ s[Len(s)] = " " THEN TrimEnd(SubSeq(s, 1, Len(s) - 1)) ELSE s

Trim(s) == TrimEnd(TrimStart(s))

\* String.prototype.includes
Includes(hay, needle) ==
    \E i \in 1..(Len(hay) - Len(needle) + 1) :
        SubSeq(hay, i, i + Len(needle) - 1) = needle

(***************************************************************************)
(* Identity resolver                                                       *)
(***************************************************************************)
normalize(value) == ToLowerCase(Trim(ToStr(value)))

AuthorObjName(book) ==
    IF "author" \in DOMAIN book THEN Get(book.author, "name") ELSE Undefined

pickAuthor(book) ==
    OrElse(Get(book, "authorTitle"),
      OrElse(Get(book, "authorName"),
        OrElse(AuthorObjName(book),
               <<"U","n","k","n","o","w","n"," ","a","u","t","h","o","r">>)))

pickTitle(book) ==
    OrElse(Get(book, "title"), <<"U","n","t","i","t","l","e","d">>)

IdFields == <<"foreignBookId", "goodreadsId", "isbn13", "isbn", "asin">>

RECURSIVE FirstId(_, _)
FirstId(book, i) ==
    IF i > Len(IdFields) THEN <<>>
    ELSE LET normalized == normalize(Get(book, IdFields[i]))
         IN IF normalized # <<>> THEN normalized ELSE FirstId(book, i + 1)

pickKeyTitleFirst(book) ==
    LET id == FirstId(book, 1)
        title == normalize(Get(book, "title"))
    IN IF title # <<>>
       THEN <<"t",":">> \o title \o <<"|","a",":">> \o normalize(pickAuthor(book))
       ELSE IF id # <<>> THEN <<"i","d",":">> \o id
       ELSE <<>>

pickKey(book) ==
    LET id == FirstId(book, 1)
        title == normalize(Get(book, "title"))
    IN IF id # <<>> THEN <<"i","d",":">> \o id
       ELSE IF title # <<>>
       THEN <<"t",":">> \o title \o <<"|","a",":">> \o normalize(pickAuthor(book))
       ELSE <<>>

pickIsbn13(book) ==
    IF Truthy(OrElse(Get(book, "isbn13"), Get(book, "isbn")))
    THEN OrElse(Get(book, "isbn13"), Get(book, "isbn"))
    ELSE Undefined

pickGoodreadsId(book) ==
    IF Truthy(Get(book, "goodreadsId")) THEN Get(book, "goodreadsId") ELSE Undefined

matchesTerm(term, book) ==
    LET normalized == normalize(term)
    IN /\ normalized # <<>>
       /\ \/ Includes(normalize(pickTitle(book)), normalized)
          \/ Includes(normalize(pickAuthor(book)), normalized)
          \/ Includes(normalize(pickIsbn13(book)), normalized)
          \/ Includes(normalize(Get(book, "goodreadsId")), normalized)

pickLookupKey(book) ==
    LET key == pickKey(book)
    IN IF key # <<>> THEN key
    ELSE <<"t",":">> \o normalize(Get(book, "title"))
           \o <<"|","a",":">> \o normalize(pickAuthor(book))
           \o <<"|","i",":">> \o normalize(pickIsbn13(book))

(***************************************************************************)
(* Map<string, V>: entries in insertion order                              *)
(***************************************************************************)
MapHas(map, key) == \E i \in DOMAIN map : map[i].key = key

\* map.get(key), as <<>> (undefined) or <<value>>
MapGet(map, key) ==
    IF MapHas(map, key)
    THEN << map[CHOOSE i \in DOMAIN map : map[i].key = key].value >>
    ELSE <<>>

\* variant: every set adds an entry, as pushing onto an array would
MapSetAppend(map, key, value) == Append(map, [key |-> key, value |-> value])

\* map.set(key, value): an existing key keeps its position
MapSet(map, key, value) ==
    IF MapHas(map, key)
    THEN [i \in DOMAIN map |->
            IF map[i].key = key THEN [key |-> key, value |-> value] ELSE map[i]]
    ELSE Append(map, [key |-> key, value |-> value])

\* Array.from(map.values())
MapValues(map) == [i \in DOMAIN map |-> map[i].value]

(***************************************************************************)
(* lookupBooks                                                             *)
(***************************************************************************)
\* variant: a single page whatever the limit
MaxPagesOne(limit) == 1

\* Math.max(1, Math.ceil(limit / 5))
MaxPagesFor(limit) ==
    IF (limit + 4) \div 5 > 1 THEN (limit + 4) \div 5 ELSE 1

\* what the remote answers for a page number
PageAt(pages, page) == IF page \in DOMAIN pages THEN pages[page] ELSE <<>>

\* variant: the seen set is keyed by title and author, ids ignored
DedupKeyTitleAuthor(item) ==
    <<"t",":">> \o normalize(Get(item, "title"))
      \o <<"|","a",":">> \o normalize(pickAuthor(item))

\* const key = pickLookupKey(item)
DedupKey(item) == pickLookupKey(item)

\* variant: the inner loop never returns early at the limit
RECURSIVE ProcessPageNoLimit(_, _, _, _, _, _)
ProcessPageNoLimit(data, i, results, seen, added, limit) ==
    IF i > Len(data)
    THEN [results |-> results, seen |-> seen, added |-> added, full |-> FALSE]
    ELSE IF pickLookupKey(data[i]) \in seen
    THEN ProcessPageNoLimit(data, i + 1, results, seen, added, limit)
    ELSE ProcessPageNoLimit(data, i + 1, Append(results, data[i]),
                            seen \cup {pickLookupKey(data[i])}, added + 1, limit)

\* the inner loop over one page: results, seen, addedThisPage, and whether
\* the limit was reached (return results)
RECURSIVE ProcessPage(_, _, _, _, _, _)
ProcessPage(data, i, results, seen, added, limit) ==
    IF i > Len(data)
    THEN [results |-> results, seen |-> seen, added |-> added, full |-> FALSE]
    ELSE LET key == DedupKey(data[i])
         IN IF key \in seen
            THEN ProcessPage(data, i + 1, results, seen, added, limit)
            ELSE IF Len(results) + 1 >= limit
            THEN [results |-> Append(results, data[i]),
                  seen |-> seen \cup {key},
                  added |-> added + 1, full |-> TRUE]
            ELSE ProcessPage(data, i + 1, Append(results, data[i]),
                             seen \cup {key}, added + 1, limit)

\* the loop over pages, as a function of the remote's pages
RECURSIVE LookupLoop(_, _, _, _, _)
LookupLoop(pages, limit, page, results, seen) ==
    IF page > MaxPagesFor(limit) THEN results
    ELSE IF PageAt(pages, page) = <<>> THEN results
    ELSE LET r == ProcessPage(PageAt(pages, page), 1, results, seen, 0, limit)
         IN IF r.full THEN r.results
            ELSE IF r.added = 0 THEN results
            ELSE LookupLoop(pages, limit, page + 1, r.results, r.seen)

lookupBooks(pages, limit) == LookupLoop(pages, limit, 1, <<>>, {})

(***************************************************************************)
(* Catalog index                                                           *)
(***************************************************************************)
NumberField(obj, field) == IF field \in DOMAIN obj THEN obj[field] ELSE 0

hasFile(book) ==
    \/ NumberField(book, "bookFileId") # 0
    \/ ("bookFile" \in DOMAIN book /\ NumberField(book.bookFile, "id") # 0)
    \/ ("statistics" \in DOMAIN book
          /\ NumberField(book.statistics, "bookFileCount") > 0)
    \/ ("statistics" \in DOMAIN book
          /\ NumberField(book.statistics, "sizeOnDisk") > 0)

\* book.monitored ?? true
MonitoredOrTrue(book) ==
    IF "monitored" \in DOMAIN book THEN book.monitored ELSE TRUE

ExistingInfo(book) ==
    [id |-> book.id, monitored |-> MonitoredOrTrue(book), hasFile |-> hasFile(book)]

\* variant: the first record of an identity is kept
RECURSIVE MapExistingFirstWins(_, _, _)
MapExistingFirstWins(books, i, keys) ==
    IF i > Len(books) THEN keys
    ELSE LET key == pickKey(books[i])
         IN IF key # <<>> /\ "id" \in DOMAIN books[i] /\ ~MapHas(keys, key)
            THEN MapExistingFirstWins(books, i + 1,
                                      MapSet(keys, key, ExistingInfo(books[i])))
            ELSE MapExistingFirstWins(books, i + 1, keys)

RECURSIVE MapExistingFrom(_, _, _)
MapExistingFrom(books, i, keys) ==
    IF i > Len(books) THEN keys
    ELSE LET key == pickKey(books[i])
         IN IF key # <<>> /\ "id" \in DOMAIN books[i]
            THEN MapExistingFrom(books, i + 1,
                                 MapSet(keys, key, ExistingInfo(books[i])))
            ELSE MapExistingFrom(books, i + 1, keys)

mapExisting(books) == MapExistingFrom(books, 1, <<>>)

(***************************************************************************)
(* Result merger                                                           *)
(***************************************************************************)
Instances == {"ebook", "audio"}

EmptyView ==
    [available |-> FALSE, alreadyAdded |-> FALSE, existingId |-> <<>>,
     monitored |-> <<>>, hasFile |-> <<>>, lookup |-> <<>>]

NewItem(key, book) ==
    [key |-> key,
     title |-> pickTitle(book),
     author |-> pickAuthor(book),
     isbn13 |-> pickIsbn13(book),
     foreignBookId |-> Get(book, "foreignBookId"),
     goodreadsId |-> pickGoodreadsId(book),
     ebook |-> EmptyView,
     audio |-> EmptyView]

\* variant: a monitored record counts as added even without a file
IsCompleteMonitoredOnly(existing) == existing # <<>> /\ existing[1].monitored

\* Boolean(existing && existing.monitored && existing.hasFile)
IsComplete(existing) ==
    existing # <<>> /\ existing[1].monitored /\ existing[1].hasFile

\* the instance view written by ingest; existing is <<>> or <<ExistingInfo>>
LookupView(existing, book) ==
    [available |-> TRUE,
     alreadyAdded |-> IsComplete(existing),
     existingId |-> IF existing = <<>> THEN <<>> ELSE << existing[1].id >>,
     monitored |-> IF existing = <<>> THEN <<>> ELSE << existing[1].monitored >>,
     hasFile |-> IF existing = <<>> THEN <<>> ELSE << existing[1].hasFile >>,
     lookup |-> << book >>]

\* the instance view written by addExistingMatches
OwnedView(existing) ==
    [available |-> TRUE,
     alreadyAdded |-> IsComplete(existing),
     existingId |-> << existing[1].id >>,
     monitored |-> << existing[1].monitored >>,
     hasFile |-> << existing[1].hasFile >>,
     lookup |-> <<>>]

SetView(item, instance, view) ==
    IF instance = "ebook" THEN [item EXCEPT !.ebook = view]
    ELSE [item EXCEPT !.audio = view]

\* variant: a later record of the identity rewrites the item's own fields
CurrentItemRefreshed(items, key, book) ==
    IF MapHas(items, key)
    THEN [NewItem(key, book) EXCEPT !.ebook = MapGet(items, key)[1].ebook,
                                    !.audio = MapGet(items, key)[1].audio]
    ELSE NewItem(key, book)

\* items.get(key) || { key, title, author, ... }
CurrentItem(items, key, book) ==
    IF MapHas(items, key) THEN MapGet(items, key)[1] ELSE NewItem(key, book)

RECURSIVE IngestFrom(_, _, _, _, _)
IngestFrom(items, lookup, i, existingMap, instance) ==
    IF i > Len(lookup) THEN items
    ELSE LET key == pickKey(lookup[i])
             existing == MapGet(existingMap, key)
             current == CurrentItem(items, key, lookup[i])
         IN IF key = <<>>
            THEN IngestFrom(items, lookup, i + 1, existingMap, instance)
            ELSE IngestFrom(
                   MapSet(items, key,
                          SetView(current, instance,
                                  LookupView(existing, lookup[i]))),
                   lookup, i + 1, existingMap, instance)

ingest(items, lookup, existingMap, instance) ==
    IngestFrom(items, lookup, 1, existingMap, instance)

RECURSIVE AddExistingFrom(_, _, _, _, _, _)
AddExistingFrom(items, books, i, existingMap, instance, term) ==
    IF i > Len(books) THEN items
    ELSE IF ~matchesTerm(term, books[i])
    THEN AddExistingFrom(items, books, i + 1, existingMap, instance, term)
    ELSE LET key == pickKey(books[i])
             existing == MapGet(existingMap, key)
         IN IF key = <<>> \/ MapHas(items, key)
            THEN AddExistingFrom(items, books, i + 1, existingMap, instance, term)
            ELSE IF existing = <<>>
            THEN AddExistingFrom(items, books, i + 1, existingMap, instance, term)
            ELSE AddExistingFrom(
                   MapSet(items, key,
                          SetView(NewItem(key, books[i]), instance,
                                  OwnedView(existing))),
                   books, i + 1, existingMap, instance, term)

addExistingMatches(items, books, existingMap, instance, term) ==
    AddExistingFrom(items, books, 1, existingMap, instance, term)

(***************************************************************************)
(* searchBooks                                                             *)
(***************************************************************************)
\* the order of the characters; letters of different case differ last
CollationOrder ==
    <<" ", "/", "7", "9", "a", "b", "d", "e", "h", "i", "k", "l", "n", "o",
      "r", "t", "u", "w", "x">>

CharRank(c) ==
    CHOOSE i \in DOMAIN CollationOrder : CollationOrder[i] = ToLowerChar(c)

\* -1, 0 or 1 on the letters, case ignored
RECURSIVE PrimaryCompare(_, _)
PrimaryCompare(a, b) ==
    IF a = <<>> /\ b = <<>> THEN 0
    ELSE IF a = <<>> THEN -1
    ELSE IF b = <<>> THEN 1
    ELSE IF CharRank(Head(a)) < CharRank(Head(b)) THEN -1
    ELSE IF CharRank(Head(a)) > CharRank(Head(b)) THEN 1
    ELSE PrimaryCompare(Tail(a), Tail(b))

\* same letters: the first difference of case decides, lower case first
RECURSIVE CaseCompare(_, _)
CaseCompare(a, b) ==
    IF a = <<>> THEN 0
    ELSE IF Head(a) = Head(b) THEN CaseCompare(Tail(a), Tail(b))
    ELSE IF Head(a) = ToLowerChar(Head(a)) THEN -1
    ELSE 1

\* a.localeCompare(b)
localeCompare(a, b) ==
    IF PrimaryCompare(a, b) # 0 THEN PrimaryCompare(a, b) ELSE CaseCompare(a, b)

\* variant: an item goes in front of the items it compares equal to
RECURSIVE SortedInsertBeforeEqual(_, _)
SortedInsertBeforeEqual(sorted, item) ==
    IF sorted = <<>> THEN << item >>
    ELSE IF localeCompare(Head(sorted).title, item.title) >= 0
    THEN << item >> \o sorted
    ELSE << Head(sorted) >> \o SortedInsertBeforeEqual(Tail(sorted), item)

\* insert an item behind every item that does not compare greater (stable)
RECURSIVE SortedInsert(_, _)
SortedInsert(sorted, item) ==
    IF sorted = <<>> THEN << item >>
    ELSE IF localeCompare(Head(sorted).title, item.title) > 0
    THEN << item >> \o sorted
    ELSE << Head(sorted) >> \o SortedInsert(Tail(sorted), item)

RECURSIVE SortFrom(_, _, _)
SortFrom(list, i, sorted) ==
    IF i > Len(list) THEN sorted
    ELSE SortFrom(list, i + 1, SortedInsert(sorted, list[i]))

\* list.sort((a, b) => a.title.localeCompare(b.title))
SortByTitle(list) == SortFrom(list, 1, <<>>)

DefaultLookupLimit == 20

\* READARR_LOOKUP_LIMIT, <<>> when unset or not a number
LookupLimit(raw) ==
    IF raw # <<>> /\ raw[1] >= DefaultLookupLimit THEN raw[1] ELSE DefaultLookupLimit

\* the items map after the two ingests and the two catalog sweeps
MergeItems(term, ebookLookup, audioLookup, ebookExisting, audioExisting) ==
    LET ebookMap == mapExisting(ebookExisting)
        audioMap == mapExisting(audioExisting)
        i1 == ingest(<<>>, ebookLookup, ebookMap, "ebook")
        i2 == ingest(i1, audioLookup, audioMap, "audio")
        i3 == addExistingMatches(i2, ebookExisting, ebookMap, "ebook", term)
    IN addExistingMatches(i3, audioExisting, audioMap, "audio", term)

searchBooks(term, ebookLookup, audioLookup, ebookExisting, audioExisting) ==
    SortByTitle(MapValues(
        MergeItems(term, ebookLookup, audioLookup, ebookExisting, audioExisting)))

(***************************************************************************)
(* State                                                                   *)
(***************************************************************************)
VARIABLES
    rbPc,              \* position of the requestBook invocation
    rbInstance,        \* its instance argument
    rbLookup,          \* its lookup argument: <<>> (undefined) or <<record>>
    rbExistingId,      \* its existingId argument: <<>> (undefined) or <<id>>
    monitorSucceeded,
    searchSucceeded,
    rbExisting,        \* existing.data of the fallback fetch: <<>> or <<record>>
    rbDefaults,        \* defaults of the create path: <<>> or <<Defaults>>
    rbCalls,           \* remote calls issued by the invocation, in order
    rbResult,          \* "pending", "ok" (resolved) or "error" (rejected)
    rbError,           \* which error was thrown
    rbCount,           \* invocations started so far
    defaultsCache,     \* base URL -> <<>> or <<[value, timestamp]>>
    now,               \* Date.now()
    lookupPages,       \* per instance: the pages the remote answers a lookup with
    catalog,           \* per instance: the remote's GET /api/v1/book answer
    remoteRootFolders, \* per base URL: the remote's GET /api/v1/rootfolder answer
    rcPc,              \* per overlapping create request: its position
    rcInstance,        \* its instance argument
    rcLookup,          \* its lookup argument
    rcDefaults,        \* the defaults it got: <<>> or <<pair>>
    rcOwn,             \* the pair its own listing requests gave: <<>> or <<pair>>
    rcCalls,           \* the remote calls it made, in order
    rcResolved,        \* every pair a successful resolution has produced
    rcCount,           \* create requests started
    sbStatus,          \* searchBooks: "idle", "ok" (resolved) or "error" (rejected)
    sbTerm,            \* its term argument
    sbLookup,          \* per instance: what its lookupBooks call returned
    sbItems,           \* the items it returned
    sbFailed,          \* the first of its four calls to reject: <<>> or <<call>>
    lbPc,              \* lookupBooks: "idle", "paging" or "done"
    lbLimit,           \* its limit argument
    lbPage,            \* the loop variable page
    lbResults,         \* results
    lbSeen,            \* seen
    lbRequests,        \* GET /api/v1/book/lookup calls issued
    lbStatus,          \* "pending", "ok" (resolved) or "error" (rejected)
    pkCalls,           \* pickKey: <<>> or the last pair of records keyed, with the keys
    meCalls,           \* mapExisting: <<>> or the last list indexed, with the map
    stPc,              \* the server process: "off" or "up"
    processEnv,        \* process.env
    settingsFile,      \* data/settings.json: <<>> (absent) or <<content>>
    cached,            \* settingsStore cached: <<>> (null) or <<settings>>
    stReturned,        \* what the last getSettings call returned: <<>> or <<state>>
    stCalls,           \* getSettings and saveSettings calls made
    stLast,            \* the last of them: "none", "getSettings" or "saveSettings"
    svPc,              \* saveSettings: "idle", "writing" or "written"
    svInput,           \* its settings argument: <<>> or <<settings>>
    svNormalized,      \* normalized: <<>> or <<settings>>
    svResult,          \* how the last saveSettings ended
    apiPc,             \* the controller: "idle", "ready" (handler to start) or "busy"
    apiRequest,        \* the request it took last: <<>> or <<request>>
    apiSettings,       \* what requireSettings gave its handler: <<>> or <<settings>>
    apiResponse,       \* the answer to that request: <<>> or <<response>>
    apiCalls,          \* remote calls testConnection made for that request
    clAuthToken,       \* the client's authToken
    clConfigured,      \* configured
    clResults,         \* results
    clLoading,         \* loading
    clError,           \* error: <<>> (null) or <<status the message came with>>;
                       \* 3 and 0 stand for handleSearch's own two messages
    clRequestState,    \* requestState
    clPending,         \* fetches awaiting their answer, oldest first
    clFetches          \* fetches started

requestVars ==
    <<rbPc, rbInstance, rbLookup, rbExistingId, monitorSucceeded,
      searchSucceeded, rbExisting, rbDefaults, rbCalls, rbResult, rbError,
      rbCount, defaultsCache, now>>

remoteVars == <<lookupPages, catalog, remoteRootFolders>>

searchVars == <<sbStatus, sbTerm, sbLookup, sbItems, sbFailed>>

lookupVars == <<lbPc, lbLimit, lbPage, lbResults, lbSeen, lbRequests, lbStatus>>

raceVars ==
    <<rcPc, rcInstance, rcLookup, rcDefaults, rcOwn, rcCalls, rcResolved, rcCount>>

keyVars == <<pkCalls, meCalls>>

settingsVars ==
    <<stPc, processEnv, settingsFile, cached, stReturned, stCalls, stLast,
      svPc, svInput, svNormalized, svResult>>

apiVars == <<apiPc, apiRequest, apiSettings, apiResponse, apiCalls>>

\* what requestBook, searchBooks and lookupBooks leave alone
clientVars ==
    <<clAuthToken, clConfigured, clResults, clLoading, clError, clRequestState,
      clPending, clFetches>>

outerVars == <<keyVars, settingsVars, apiVars, clientVars>>

vars == <<requestVars, remoteVars, searchVars, lookupVars, raceVars, outerVars>>

(***************************************************************************)
(* Inputs of requestBook and answers of the remote                         *)
(***************************************************************************)
BaseUrls == {<<"e">>, <<"a">>}

RootFolderPaths == {<<>>, <<" ">>, <<"/","b"," ">>}

\* an InstanceConfig; qualityProfileId absent stands for a non-finite value
InstanceConfigs ==
    [baseUrl : BaseUrls, apiKey : {<<"k">>}, rootFolderPath : RootFolderPaths,
     qualityProfileId : {2}]
    \cup [baseUrl : BaseUrls, apiKey : {<<"k">>}, rootFolderPath : RootFolderPaths]

LookupArgs ==
    { <<>>,
      << [title |-> <<"D","u">>, isbn13 |-> <<"9","7">>, edition |-> <<"x">>] >>,
      << [title |-> <<"D","u">>, id |-> 9, monitored |-> FALSE,
          rootFolderPath |-> <<"/","o">>, qualityProfileId |-> 8] >> }

\* the controller passes existingId only when it is finite and > 0
ExistingIdArgs == { <<>>, <<5>> }

FetchedBooks ==
    { [id |-> 5, title |-> <<"D","u">>, monitored |-> FALSE,
       rootFolderPath |-> <<"/","o">>, qualityProfileId |-> 8],
      [id |-> 5, title |-> <<"A","b">>] }

RootFolderLists ==
    { <<>>,
      << [id |-> 1] >>,
      << [id |-> 1, path |-> <<"/","x">>],
         [id |-> 2, path |-> <<"/","d">>, isDefault |-> TRUE] >> }

QualityProfileLists ==
    { <<>>,
      << [id |-> 0, name |-> <<"n">>] >>,
      << [id |-> 3], [id |-> 4, default |-> TRUE] >> }

TickMs == 5 * 60 * 1000
CacheTtlMs == 10 * 60 * 1000

(***************************************************************************)
(* Object helpers                                                          *)
(***************************************************************************)
\* { ...base, ...over }
Spread(base, over) ==
    [f \in DOMAIN base \cup DOMAIN over |->
        IF f \in DOMAIN over THEN over[f] ELSE base[f]]

\* delete obj[field]
Delete(obj, field) == [f \in DOMAIN obj \ {field} |-> obj[f]]

\* the object as it is serialised: a field set to undefined is not sent
SetField(obj, field, holder) ==
    IF field \in DOMAIN holder
    THEN Spread(obj, [f \in {field} |-> holder[field]])
    ELSE Delete(obj, field)

\* variant: one client, created for the e-book instance, serves every call
CallSharedClient(instance, method, path, body, ok) ==
    [baseUrl |-> <<"e">>, method |-> method, path |-> path, body |-> body,
     ok |-> ok]

Call(instance, method, path, body, ok) ==
    [baseUrl |-> instance.baseUrl, method |-> method, path |-> path,
     body |-> body, ok |-> ok]

(***************************************************************************)
(* resolveDefaults                                                         *)
(***************************************************************************)
IsDefaultEntry(entry) ==
    \/ ("isDefault" \in DOMAIN entry /\ entry.isDefault)
    \/ ("default" \in DOMAIN entry /\ entry.default)

\* variant: an empty list gives a built-in entry
PickDefaultOrBuiltIn(list) ==
    IF \E i \in DOMAIN list : IsDefaultEntry(list[i])
    THEN << list[CHOOSE i \in DOMAIN list :
                /\ IsDefaultEntry(list[i])
                /\ \A j \in 1..(i - 1) : ~IsDefaultEntry(list[j])] >>
    ELSE IF list # <<>> THEN << list[1] >>
    ELSE << [id |-> 1, path |-> <<"/", "b">>] >>

\* list.find(isDefault || default) || list[0], as <<>> or <<entry>>
PickDefault(list) ==
    IF \E i \in DOMAIN list : IsDefaultEntry(list[i])
    THEN << list[CHOOSE i \in DOMAIN list :
                /\ IsDefaultEntry(list[i])
                /\ \A j \in 1..(i - 1) : ~IsDefaultEntry(list[j])] >>
    ELSE IF list # <<>> THEN << list[1] >> ELSE <<>>

HasRootPath(root) ==
    root # <<>> /\ "path" \in DOMAIN root[1] /\ root[1].path # <<>>

HasProfileId(profile) ==
    profile # <<>> /\ "id" \in DOMAIN profile[1] /\ profile[1].id # 0

\* variant: the profile of an entry held for some base URL is kept
ResolvedPairKeepsCachedProfile(rootFolders, profiles) ==
    [rootFolderPath |-> PickDefault(rootFolders)[1].path,
     qualityProfileId |->
         IF \E u \in DOMAIN defaultsCache : defaultsCache[u] # <<>>
         THEN defaultsCache[CHOOSE u \in DOMAIN defaultsCache :
                                defaultsCache[u] # <<>>][1].value.qualityProfileId
         ELSE PickDefault(profiles)[1].id]

\* const value = { rootFolderPath: root.path, qualityProfileId: profile.id }
ResolvedPair(rootFolders, profiles) ==
    [rootFolderPath |-> PickDefault(rootFolders)[1].path,
     qualityProfileId |-> PickDefault(profiles)[1].id]

\* variant: an entry of exactly the age limit still counts
CacheFreshInclusive(entry, time) ==
    entry # <<>> /\ time - entry[1].timestamp <= CacheTtlMs

\* cached && Date.now() - cached.timestamp < 10 * 60 * 1000
CacheFresh(entry, time) ==
    entry # <<>> /\ time - entry[1].timestamp < CacheTtlMs

(***************************************************************************)
(* requestBook                                                             *)
(***************************************************************************)
\* variant: a supplied lookup record selects the create path first
RequestModeLookupFirst(lookup, existingId) ==
    IF lookup # <<>> THEN "create"
    ELSE IF existingId # <<>> /\ existingId[1] # 0 THEN "rerequest"
    ELSE "missing"

\* variant: the create path does not check that a lookup record was given
RequestModeNoLookupCheck(lookup, existingId) ==
    IF existingId # <<>> /\ existingId[1] # 0 THEN "rerequest" ELSE "create"

\* if (existingId) ... else if (!lookup) throw ... else create
RequestMode(lookup, existingId) ==
    IF existingId # <<>> /\ existingId[1] # 0 THEN "rerequest"
    ELSE IF lookup = <<>> THEN "missing"
    ELSE "create"

\* variant: a failed monitor call goes straight to the fallback
AfterMonitorAbort(ok) == IF ok THEN "search" ELSE "fetch"

\* variant: a successful monitor call returns without triggering the search
AfterMonitorShortCircuit(ok) == IF ok THEN "done" ELSE "search"

\* the try/catch around the monitor call swallows its failure
AfterMonitor(ok) == "search"

\* variant: both steps are required
PrimarySucceededBoth(monitorOk, searchOk) == monitorOk /\ searchOk

\* variant: unconditional return after the two steps
PrimarySucceededAlways(monitorOk, searchOk) == TRUE

\* if (monitorSucceeded || searchSucceeded) return
PrimarySucceeded(monitorOk, searchOk) == monitorOk \/ searchOk

\* rootFolderPath && Number.isFinite(qualityProfileId)
HasExplicitDefaults(instance) ==
    /\ Trim(ToStr(Get(instance, "rootFolderPath"))) # <<>>
    /\ "qualityProfileId" \in DOMAIN instance

\* variant: the configured path is passed on as it is
ExplicitDefaultsUntrimmed(instance) ==
    [rootFolderPath |-> instance.rootFolderPath,
     qualityProfileId |-> instance.qualityProfileId]

\* { rootFolderPath, qualityProfileId: Number(qualityProfileId) }
ExplicitDefaults(instance) ==
    [rootFolderPath |-> Trim(instance.rootFolderPath),
     qualityProfileId |-> instance.qualityProfileId]

\* variant: the fetched record is sent back with monitored set and no more
FallbackPayloadMonitoredOnly(existing, instance) ==
    Spread(existing, [monitored |-> TRUE])

FallbackPayload(existing, instance) ==
    SetField(SetField(Spread(existing, [monitored |-> TRUE]),
                      "rootFolderPath", instance),
             "qualityProfileId", instance)

\* variant: the id of the lookup record stays in the payload
CreatePayloadKeepId(lookup, defaults) ==
    Spread(lookup,
           [rootFolderPath |-> defaults.rootFolderPath,
            qualityProfileId |-> defaults.qualityProfileId,
            monitored |-> TRUE,
            addOptions |-> [searchForNewBook |-> TRUE]])

\* { ...lookup, rootFolderPath, qualityProfileId, monitored, addOptions }
\* and delete payload.id
CreatePayload(lookup, defaults) ==
    Delete(Spread(lookup,
                  [rootFolderPath |-> defaults.rootFolderPath,
                   qualityProfileId |-> defaults.qualityProfileId,
                   monitored |-> TRUE,
                   addOptions |-> [searchForNewBook |-> TRUE]]),
           "id")

RbBegin(instance, lookup, existingId) ==
    /\ UNCHANGED <<remoteVars, searchVars, lookupVars, raceVars, outerVars>>
    /\ rbPc \in {"idle", "done"}
    /\ rbCount < MaxRequests
    /\ rbCount' = rbCount + 1
    /\ rbInstance' = instance
    /\ rbLookup' = lookup
    /\ rbExistingId' = existingId
    /\ monitorSucceeded' = FALSE
    /\ searchSucceeded' = FALSE
    /\ rbExisting' = <<>>
    /\ rbCalls' = <<>>
    /\ UNCHANGED <<defaultsCache, now>>
    /\ CASE RequestMode(lookup, existingId) = "rerequest" ->
              /\ rbPc' = "monitor"
              /\ rbResult' = "pending"
              /\ rbError' = "none"
              /\ rbDefaults' = <<>>
         [] RequestMode(lookup, existingId) = "missing" ->
              /\ rbPc' = "done"
              /\ rbResult' = "error"
              /\ rbError' = "missing_lookup"
              /\ rbDefaults' = <<>>
         [] OTHER ->
              /\ rbResult' = "pending"
              /\ rbError' = "none"
              /\ IF HasExplicitDefaults(instance)
                 THEN /\ rbDefaults' = << ExplicitDefaults(instance) >>
                      /\ rbPc' = "create"
                 ELSE IF CacheFresh(defaultsCache[instance.baseUrl], now)
                 THEN /\ rbDefaults' = << defaultsCache[instance.baseUrl][1].value >>
                      /\ rbPc' = "create"
                 ELSE /\ rbDefaults' = <<>>
                      /\ rbPc' = "resolve"

RbMonitor(ok) ==
    /\ UNCHANGED <<remoteVars, searchVars, lookupVars, raceVars, outerVars>>
    /\ rbPc = "monitor"
    /\ rbCalls' = Append(rbCalls,
          Call(rbInstance, "POST", "/api/v1/book/monitor",
               [bookIds |-> << rbExistingId[1] >>, monitored |-> TRUE], ok))
    /\ monitorSucceeded' = ok
    /\ rbPc' = AfterMonitor(ok)
    /\ IF AfterMonitor(ok) = "done" THEN rbResult' = "ok" ELSE UNCHANGED rbResult
    /\ UNCHANGED <<rbInstance, rbLookup, rbExistingId, searchSucceeded,
                   rbExisting, rbDefaults, rbError, rbCount, defaultsCache, now>>

RbSearch(ok) ==
    /\ UNCHANGED <<remoteVars, searchVars, lookupVars, raceVars, outerVars>>
    /\ rbPc = "search"
    /\ rbCalls' = Append(rbCalls,
          Call(rbInstance, "POST", "/api/v1/command",
               [name |-> "BookSearch", bookIds |-> << rbExistingId[1] >>], ok))
    /\ searchSucceeded' = ok
    /\ IF PrimarySucceeded(monitorSucceeded, ok)
       THEN rbPc' = "done" /\ rbResult' = "ok"
       ELSE rbPc' = "fetch" /\ UNCHANGED rbResult
    /\ UNCHANGED <<rbInstance, rbLookup, rbExistingId, monitorSucceeded,
                   rbExisting, rbDefaults, rbError, rbCount, defaultsCache, now>>

RbFetch(ok, book) ==
    /\ UNCHANGED <<remoteVars, searchVars, lookupVars, raceVars, outerVars>>
    /\ rbPc = "fetch"
    /\ rbCalls' = Append(rbCalls,
          Call(rbInstance, "GET", "/api/v1/book/{id}",
               [id |-> rbExistingId[1]], ok))
    /\ IF ok
       THEN /\ rbExisting' = << book >>
            /\ rbPc' = "put"
            /\ UNCHANGED <<rbResult, rbError>>
       ELSE /\ rbPc' = "done"
            /\ rbResult' = "error"
            /\ rbError' = "remote"
            /\ UNCHANGED rbExisting
    /\ UNCHANGED <<rbInstance, rbLookup, rbExistingId, monitorSucceeded,
                   searchSucceeded, rbDefaults, rbCount, defaultsCache, now>>

RbPut(ok) ==
    /\ UNCHANGED <<remoteVars, searchVars, lookupVars, raceVars, outerVars>>
    /\ rbPc = "put"
    /\ rbCalls' = Append(rbCalls,
          Call(rbInstance, "PUT", "/api/v1/book",
               FallbackPayload(rbExisting[1], rbInstance), ok))
    /\ rbPc' = "done"
    /\ rbResult' = IF ok THEN "ok" ELSE "error"
    /\ rbError' = IF ok THEN "none" ELSE "remote"
    /\ UNCHANGED <<rbInstance, rbLookup, rbExistingId, monitorSucceeded,
                   searchSucceeded, rbExisting, rbDefaults, rbCount,
                   defaultsCache, now>>

\* the answers to the two listings of resolveDefaults arrive
RbResolve(rootOk, profileOk, rootFolders, profiles) ==
    /\ UNCHANGED <<remoteVars, searchVars, lookupVars, raceVars, outerVars>>
    /\ rbPc = "resolve"
    /\ rbCalls' = rbCalls \o
          << Call(rbInstance, "GET", "/api/v1/rootfolder", <<>>, rootOk),
             Call(rbInstance, "GET", "/api/v1/qualityprofile", <<>>, profileOk) >>
    /\ IF ~(rootOk /\ profileOk)
       THEN /\ rbPc' = "done" /\ rbResult' = "error" /\ rbError' = "remote"
            /\ UNCHANGED <<rbDefaults, defaultsCache>>
       ELSE IF ~HasRootPath(PickDefault(rootFolders))
       THEN /\ rbPc' = "done" /\ rbResult' = "error" /\ rbError' = "no_root_folder"
            /\ UNCHANGED <<rbDefaults, defaultsCache>>
       ELSE IF ~HasProfileId(PickDefault(profiles))
       THEN /\ rbPc' = "done" /\ rbResult' = "error" /\ rbError' = "no_quality_profile"
            /\ UNCHANGED <<rbDefaults, defaultsCache>>
       ELSE LET value == ResolvedPair(rootFolders, profiles)
            IN /\ defaultsCache' =
                     [defaultsCache EXCEPT ![rbInstance.baseUrl] =
                          << [value |-> value, timestamp |-> now] >>]
               /\ rbDefaults' = << value >>
               /\ rbPc' = "create"
               /\ UNCHANGED <<rbResult, rbError>>
    /\ UNCHANGED <<rbInstance, rbLookup, rbExistingId, monitorSucceeded,
                   searchSucceeded, rbExisting, rbCount, now>>

RbCreate(ok) ==
    /\ UNCHANGED <<remoteVars, searchVars, lookupVars, raceVars, outerVars>>
    /\ rbPc = "create"
    /\ rbCalls' = Append(rbCalls,
          Call(rbInstance, "POST", "/api/v1/book",
               CreatePayload(rbLookup[1], rbDefaults[1]), ok))
    /\ rbPc' = "done"
    /\ rbResult' = IF ok THEN "ok" ELSE "error"
    /\ rbError' = IF ok THEN "none" ELSE "remote"
    /\ UNCHANGED <<rbInstance, rbLookup, rbExistingId, monitorSucceeded,
                   searchSucceeded, rbExisting, rbDefaults, rbCount,
                   defaultsCache, now>>

\* time passes
Tick ==
    /\ UNCHANGED <<remoteVars, searchVars, lookupVars, raceVars, outerVars>>
    /\ now < MaxTicks * TickMs
    /\ now' = now + TickMs
    /\ UNCHANGED <<rbPc, rbInstance, rbLookup, rbExistingId, monitorSucceeded,
                   searchSucceeded, rbExisting, rbDefaults, rbCalls, rbResult,
                   rbError, rbCount, defaultsCache>>

RequestInit ==
    /\ rbPc = "idle"
    /\ rbInstance = [baseUrl |-> <<>>]
    /\ rbLookup = <<>>
    /\ rbExistingId = <<>>
    /\ monitorSucceeded = FALSE
    /\ searchSucceeded = FALSE
    /\ rbExisting = <<>>
    /\ rbDefaults = <<>>
    /\ rbCalls = <<>>
    /\ rbResult = "pending"
    /\ rbError = "none"
    /\ rbCount = 0
    /\ defaultsCache = [u \in BaseUrls |-> <<>>]
    /\ now = 0

(***************************************************************************)
(* The remote instances                                                    *)
(***************************************************************************)
LookupPool ==
    { [title |-> <<"D","u">>, isbn13 |-> <<"9","7">>],
      [title |-> <<"D","U">>, isbn13 |-> <<" ","9","7">>, authorName |-> <<"H","a">>],
      [title |-> <<"A","b">>, authorName |-> <<"T","o">>],
      [authorName |-> <<"T","o">>],
      [authorName |-> <<"H","a">>] }

OwnedPool ==
    { [id |-> 7, title |-> <<"D","u">>, isbn13 |-> <<"9","7">>,
       monitored |-> TRUE, bookFileId |-> 7],
      [id |-> 8, title |-> <<"D","u">>, isbn13 |-> <<"9","7">>,
       monitored |-> FALSE, statistics |-> [bookFileCount |-> 1, sizeOnDisk |-> 0]],
      [id |-> 9, title |-> <<"A","b">>, authorName |-> <<"T","o">>],
      [title |-> <<"A","b">>, authorName |-> <<"T","o">>,
       monitored |-> TRUE, bookFile |-> [id |-> 3]] }

\* the controller trims the term and rejects an empty one
Terms == { <<"D","u">>, <<"t","o">> }

LookupLimitEnv == { <<5>>, <<25>> }

LookupLimits == {1, 2, 6}

SearchCalls ==
    {"ebookLookup", "audioLookup", "ebookExisting", "audioExisting"}

RECURSIVE PagesSize(_)
PagesSize(pages) ==
    IF pages = <<>> THEN 0 ELSE Len(Head(pages)) + PagesSize(Tail(pages))

TotalRecords ==
    PagesSize(lookupPages["ebook"]) + PagesSize(lookupPages["audio"])
      + Len(catalog["ebook"]) + Len(catalog["audio"])

Quiet == sbStatus = "idle" /\ lbPc = "idle"

\* the remote's lookup answer gains a record, on its last page or on a new one
RemoteAddLookup(instance, book, newPage) ==
    /\ Quiet
    /\ TotalRecords < MaxRecords
    /\ newPage => lookupPages[instance] # <<>>
    /\ lookupPages' =
          [lookupPages EXCEPT ![instance] =
              IF newPage \/ @ = <<>>
              THEN Append(@, << book >>)
              ELSE [@ EXCEPT ![Len(@)] = Append(@, book)]]
    /\ UNCHANGED <<catalog, remoteRootFolders, requestVars, searchVars, lookupVars, raceVars, outerVars>>

\* the remote's catalog gains a record
RemoteAddOwned(instance, book) ==
    /\ Quiet
    /\ TotalRecords < MaxRecords
    /\ catalog' = [catalog EXCEPT ![instance] = Append(@, book)]
    /\ UNCHANGED <<lookupPages, remoteRootFolders, requestVars, searchVars, lookupVars, raceVars, outerVars>>

RemoteInit ==
    /\ lookupPages = [i \in Instances |-> <<>>]
    /\ catalog = [i \in Instances |-> <<>>]
    /\ remoteRootFolders = [u \in BaseUrls |-> <<>>]

(***************************************************************************)
(* searchBooks as an operation                                             *)
(***************************************************************************)
\* variant: a rejected catalog listing counts as an empty answer
AllFulfilledButListings(failed) ==
    failed \notin {<<"ebookLookup">>, <<"audioLookup">>}

\* await Promise.all([...]) resolves only when none of the four rejects
AllFulfilled(failed) == failed = <<>>

\* Promise.all of the four calls, then the merge; failed is <<>> or holds
\* the first call to reject
SbSearch(term, rawLimit, failed) ==
    /\ sbStatus = "idle"
    /\ sbTerm' = term
    /\ sbFailed' = failed
    /\ IF ~AllFulfilled(failed)
       THEN /\ sbStatus' = "error"
            /\ sbLookup' = [i \in Instances |-> <<>>]
            /\ sbItems' = <<>>
       ELSE LET ebookLookup == lookupBooks(lookupPages["ebook"], LookupLimit(rawLimit))
                audioLookup == lookupBooks(lookupPages["audio"], LookupLimit(rawLimit))
            IN /\ sbStatus' = "ok"
               /\ sbLookup' = [i \in Instances |->
                                 IF i = "ebook" THEN ebookLookup ELSE audioLookup]
               /\ sbItems' = searchBooks(term, ebookLookup, audioLookup,
                                         catalog["ebook"], catalog["audio"])
    /\ UNCHANGED <<requestVars, remoteVars, lookupVars, raceVars, outerVars>>

\* the caller is done with the result
SbReset ==
    /\ sbStatus # "idle"
    /\ sbStatus' = "idle"
    /\ sbTerm' = <<>>
    /\ sbFailed' = <<>>
    /\ sbLookup' = [i \in Instances |-> <<>>]
    /\ sbItems' = <<>>
    /\ UNCHANGED <<requestVars, remoteVars, lookupVars, raceVars, outerVars>>

SearchInit ==
    /\ sbStatus = "idle"
    /\ sbTerm = <<>>
    /\ sbLookup = [i \in Instances |-> <<>>]
    /\ sbItems = <<>>
    /\ sbFailed = <<>>

(***************************************************************************)
(* lookupBooks as an operation, one step per page request                  *)
(***************************************************************************)
LbBegin(limit) ==
    /\ lbPc = "idle"
    /\ sbStatus = "idle"
    /\ lbPc' = "paging"
    /\ lbLimit' = limit
    /\ lbPage' = 1
    /\ lbResults' = <<>>
    /\ lbSeen' = {}
    /\ lbRequests' = 0
    /\ lbStatus' = "pending"
    /\ UNCHANGED <<requestVars, remoteVars, searchVars, raceVars, outerVars>>

\* one iteration of the for loop: the page request and the loop over its data
LbPage(ok) ==
    /\ lbPc = "paging"
    /\ lbRequests' = lbRequests + 1
    /\ UNCHANGED lbLimit
    /\ IF ~ok
       THEN /\ lbPc' = "done" /\ lbStatus' = "error"
            /\ UNCHANGED <<lbPage, lbResults, lbSeen>>
       ELSE IF PageAt(lookupPages["ebook"], lbPage) = <<>>
       THEN /\ lbPc' = "done" /\ lbStatus' = "ok"
            /\ UNCHANGED <<lbPage, lbResults, lbSeen>>
       ELSE LET r == ProcessPage(PageAt(lookupPages["ebook"], lbPage), 1,
                                 lbResults, lbSeen, 0, lbLimit)
            IN IF r.full
               THEN /\ lbPc' = "done" /\ lbStatus' = "ok"
                    /\ lbResults' = r.results /\ lbSeen' = r.seen
                    /\ UNCHANGED lbPage
               ELSE IF r.added = 0 \/ lbPage + 1 > MaxPagesFor(lbLimit)
               THEN /\ lbPc' = "done" /\ lbStatus' = "ok"
                    /\ lbResults' = r.results /\ lbSeen' = r.seen
                    /\ UNCHANGED lbPage
               ELSE /\ lbPage' = lbPage + 1
                    /\ lbResults' = r.results /\ lbSeen' = r.seen
                    /\ UNCHANGED <<lbPc, lbStatus>>
    /\ UNCHANGED <<requestVars, remoteVars, searchVars, raceVars, outerVars>>

\* the caller is done with the result
LbReset ==
    /\ lbPc = "done"
    /\ lbPc' = "idle"
    /\ lbLimit' = 0
    /\ lbPage' = 0
    /\ lbResults' = <<>>
    /\ lbSeen' = {}
    /\ lbRequests' = 0
    /\ lbStatus' = "pending"
    /\ UNCHANGED <<requestVars, remoteVars, searchVars, raceVars, outerVars>>

LookupInit ==
    /\ lbPc = "idle"
    /\ lbLimit = 0
    /\ lbPage = 0
    /\ lbResults = <<>>
    /\ lbSeen = {}
    /\ lbRequests = 0
    /\ lbStatus = "pending"

(***************************************************************************)
(* Create requests that overlap                                            *)
(***************************************************************************)
Requests == {1, 2}

\* instances without configured defaults, of one base URL
RaceInstances ==
    [baseUrl : {<<"e">>}, apiKey : {<<"k">>}, rootFolderPath : {<<>>, <<" ">>}]

RaceRootLists ==
    { <<>>,
      << [id |-> 1, path |-> <<"/","x">>] >>,
      << [id |-> 1, path |-> <<"/","x">>],
         [id |-> 2, path |-> <<"/","d">>, isDefault |-> TRUE] >> }

RaceProfileLists ==
    { << [id |-> 3] >>,
      << [id |-> 3], [id |-> 4, default |-> TRUE] >> }

RaceLookups ==
    { [title |-> <<"D","u">>, id |-> 9, rootFolderPath |-> <<"/","o">>] }

\* the variables of the one-at-a-time invocation
invocationVars ==
    <<rbPc, rbInstance, rbLookup, rbExistingId, monitorSucceeded,
      searchSucceeded, rbExisting, rbDefaults, rbCalls, rbResult, rbError,
      rbCount>>

\* requestBook(instance, lookup) up to its first await: the cache check of
\* resolveDefaults
RcBegin(p, instance, lookup) ==
    /\ rcPc[p] \in {"idle", "done"}
    /\ rcCount < MaxRequests + 1
    /\ rcCount' = rcCount + 1
    /\ rcInstance' = [rcInstance EXCEPT ![p] = instance]
    /\ rcLookup' = [rcLookup EXCEPT ![p] = lookup]
    /\ rcOwn' = [rcOwn EXCEPT ![p] = <<>>]
    /\ rcCalls' = [rcCalls EXCEPT ![p] = <<>>]
    /\ IF CacheFresh(defaultsCache[instance.baseUrl], now)
       THEN /\ rcDefaults' = [rcDefaults EXCEPT ![p] =
                                 << defaultsCache[instance.baseUrl][1].value >>]
            /\ rcPc' = [rcPc EXCEPT ![p] = "create"]
       ELSE /\ rcDefaults' = [rcDefaults EXCEPT ![p] = <<>>]
            /\ rcPc' = [rcPc EXCEPT ![p] = "resolve"]
    /\ UNCHANGED <<rcResolved, defaultsCache, now, invocationVars>>
    /\ UNCHANGED <<remoteVars, searchVars, lookupVars, outerVars>>

\* the two listings of its resolveDefaults call are answered
RcResolve(p, rootOk, profileOk, rootFolders, profiles) ==
    /\ rcPc[p] = "resolve"
    /\ rcCalls' = [rcCalls EXCEPT ![p] = @ \o
          << Call(rcInstance[p], "GET", "/api/v1/rootfolder", <<>>, rootOk),
             Call(rcInstance[p], "GET", "/api/v1/qualityprofile", <<>>, profileOk) >>]
    /\ IF \/ ~(rootOk /\ profileOk)
          \/ ~HasRootPath(PickDefault(rootFolders))
          \/ ~HasProfileId(PickDefault(profiles))
       THEN /\ rcPc' = [rcPc EXCEPT ![p] = "done"]
            /\ UNCHANGED <<rcDefaults, rcOwn, rcResolved, defaultsCache>>
       ELSE LET value == ResolvedPair(rootFolders, profiles)
            IN /\ defaultsCache' =
                     [defaultsCache EXCEPT ![rcInstance[p].baseUrl] =
                          << [value |-> value, timestamp |-> now] >>]
               /\ rcDefaults' = [rcDefaults EXCEPT ![p] = << value >>]
               /\ rcOwn' = [rcOwn EXCEPT ![p] =
                              << [rootFolderPath |-> PickDefault(rootFolders)[1].path,
                                  qualityProfileId |-> PickDefault(profiles)[1].id] >>]
               /\ rcResolved' = rcResolved \cup
                              { [rootFolderPath |-> PickDefault(rootFolders)[1].path,
                                 qualityProfileId |-> PickDefault(profiles)[1].id] }
               /\ rcPc' = [rcPc EXCEPT ![p] = "create"]
    /\ UNCHANGED <<rcInstance, rcLookup, rcCount, now, invocationVars>>
    /\ UNCHANGED <<remoteVars, searchVars, lookupVars, outerVars>>

\* its POST /api/v1/book is answered
RcCreate(p, ok) ==
    /\ rcPc[p] = "create"
    /\ rcCalls' = [rcCalls EXCEPT ![p] = Append(@,
          Call(rcInstance[p], "POST", "/api/v1/book",
               CreatePayload(rcLookup[p], rcDefaults[p][1]), ok))]
    /\ rcPc' = [rcPc EXCEPT ![p] = "done"]
    /\ UNCHANGED <<rcInstance, rcLookup, rcDefaults, rcOwn, rcResolved, rcCount,
                   defaultsCache, now, invocationVars>>
    /\ UNCHANGED <<remoteVars, searchVars, lookupVars, outerVars>>

RaceInit ==
    /\ rcPc = [p \in Requests |-> "idle"]
    /\ rcInstance = [p \in Requests |-> [baseUrl |-> <<>>]]
    /\ rcLookup = [p \in Requests |-> [title |-> <<>>]]
    /\ rcDefaults = [p \in Requests |-> <<>>]
    /\ rcOwn = [p \in Requests |-> <<>>]
    /\ rcCalls = [p \in Requests |-> <<>>]
    /\ rcResolved = {}
    /\ rcCount = 0

(***************************************************************************)
(* Keying pairs of records                                                 *)
(***************************************************************************)
\* records with ids: a field that is undefined reads like an absent one
KeyedRecords ==
    [ foreignBookId : {Undefined, <<" ">>, <<"d">>, <<"D"," ">>},
      goodreadsId : {Undefined, <<"d">>, <<"1">>},
      isbn13 : {Undefined, <<"9">>},
      isbn : {Undefined, <<"8">>},
      asin : {Undefined, <<"7">>},
      title : {<<"t">>, <<"u">>},
      authorName : {<<"v">>, <<"w">>} ]

\* records whose ids are all absent or all blank
UnkeyedRecords ==
    UNION { [ foreignBookId : {id}, goodreadsId : {id}, isbn13 : {id},
              isbn : {id}, asin : {id},
              title : {Undefined, <<" ">>, <<"t">>, <<"t","|","a",":","u">>},
              authorName : {<<"v">>, <<"w">>, <<"u","|","a",":","v">>} ]
            : id \in {Undefined, <<" ">>} }

KeyRecords == KeyedRecords \cup UnkeyedRecords

\* pickKey applied to two records
PickKeys ==
    /\ pkCalls = <<>>
    /\ \E left \in KeyRecords, right \in KeyRecords :
          pkCalls' = << [left |-> left, right |-> right,
                        keys |-> <<pickKey(left), pickKey(right)>>] >>
    /\ UNCHANGED <<meCalls, settingsVars, apiVars, clientVars>>
    /\ UNCHANGED <<requestVars, remoteVars, searchVars, lookupVars, raceVars>>

\* owned records: two of one identity, one without id, one without identity
IndexPool ==
    { [id |-> 7, title |-> <<"D","u">>, isbn13 |-> <<"9","7">>,
       monitored |-> TRUE, bookFileId |-> 7],
      [id |-> 8, title |-> <<"D","U">>, isbn13 |-> <<"9","7"," ">>,
       monitored |-> FALSE],
      [id |-> 9, title |-> <<"A","b">>, authorName |-> <<"T","o">>],
      [title |-> <<"A","b">>, authorName |-> <<"T","o">>,
       monitored |-> FALSE, bookFile |-> [id |-> 3]],
      [id |-> 10, authorName |-> <<"H","a">>, bookFileId |-> 2] }

MaxOwned == 3

OwnedLists == UNION { [1..n -> IndexPool] : n \in 0..MaxOwned }

\* mapExisting applied to one owned list
MapExistingCall ==
    /\ meCalls = <<>>
    /\ \E books \in OwnedLists :
          meCalls' = << [books |-> books, keys |-> mapExisting(books)] >>
    /\ UNCHANGED <<pkCalls, settingsVars, apiVars, clientVars>>
    /\ UNCHANGED <<requestVars, remoteVars, searchVars, lookupVars, raceVars>>

KeyInit == pkCalls = <<>> /\ meCalls = <<>>

(***************************************************************************)
(* settingsStore                                                           *)
(***************************************************************************)
MaxSettingsCalls == 3

\* Number() of something that is not a number
NaN == -1

IsFinite(n) == n # NaN

\* value.replace(/\/+$/, "")
RECURSIVE normalizeBaseUrl(_)
normalizeBaseUrl(value) ==
    IF value # <<>> /\ value[Len(value)] = "/"
    THEN normalizeBaseUrl(SubSeq(value, 1, Len(value) - 1))
    ELSE value

DigitValue(c) ==
    CASE c = "0" -> 0
      [] c = "1" -> 1
      [] c = "2" -> 2
      [] c = "3" -> 3
      [] OTHER -> NaN

RECURSIVE DigitsValue(_, _)
DigitsValue(s, acc) ==
    IF s = <<>> THEN acc
    ELSE IF DigitValue(Head(s)) = NaN THEN NaN
    ELSE DigitsValue(Tail(s), 10 * acc + DigitValue(Head(s)))

\* Number(value) of a string of a request body or of the environment
ToNumber(value) ==
    IF value = Undefined THEN NaN ELSE DigitsValue(Trim(value), 0)

toNumber(value, fallback) ==
    IF IsFinite(ToNumber(value)) THEN ToNumber(value) ELSE fallback

readOptional(value) ==
    IF ~Truthy(value) THEN Undefined
    ELSE IF Trim(value) # <<>> THEN Trim(value) ELSE Undefined

EnvInstance(env, urlVar, keyVar, rootVar, qualityVar) ==
    [baseUrl |-> normalizeBaseUrl(readOptional(Get(env, urlVar))),
     apiKey |-> readOptional(Get(env, keyVar)),
     rootFolderPath |-> OrElse(readOptional(Get(env, rootVar)),
                               <<"/","b","o","o","k","s">>),
     qualityProfileId |-> toNumber(Get(env, qualityVar), 1)]

\* <<>> is null
buildFromEnv(env) ==
    IF \E name \in {"READARR_EBOOKS_URL", "READARR_EBOOKS_APIKEY",
                     "READARR_AUDIO_URL", "READARR_AUDIO_APIKEY"} :
          readOptional(Get(env, name)) = Undefined
    THEN <<>>
    ELSE << [ebooks |-> EnvInstance(env, "READARR_EBOOKS_URL",
                          "READARR_EBOOKS_APIKEY", "EBOOKS_ROOT_FOLDER",
                          "EBOOKS_QUALITY_PROFILE_ID"),
             audio |-> EnvInstance(env, "READARR_AUDIO_URL",
                          "READARR_AUDIO_APIKEY", "AUDIO_ROOT_FOLDER",
                          "AUDIO_QUALITY_PROFILE_ID")] >>

\* the file is absent, does not parse, or holds a value
loadFromFile(file) ==
    IF file = <<>> THEN <<>>
    ELSE IF ~file[1].parses THEN <<>>
    ELSE << file[1].value >>

\* "ok", or the check that throws
validateInstance(instance) ==
    IF Trim(ToStr(Get(instance, "baseUrl"))) = <<>> THEN "base_url"
    ELSE IF Trim(ToStr(Get(instance, "apiKey"))) = <<>> THEN "api_key"
    ELSE IF Trim(ToStr(Get(instance, "rootFolderPath"))) = <<>> THEN "root_folder"
    ELSE IF ~IsFinite(instance.qualityProfileId) \/ instance.qualityProfileId <= 0
    THEN "quality_profile"
    ELSE "ok"

\* .replace and .trim of a field that is undefined throw a TypeError
NormalizeThrows(settings) ==
    \E i \in {"ebooks", "audio"} :
        \/ i \notin DOMAIN settings
        \/ \E f \in {"baseUrl", "apiKey", "rootFolderPath"} :
              Get(settings[i], f) = Undefined

normalizeInstance(instance) ==
    [baseUrl |-> normalizeBaseUrl(instance.baseUrl),
     apiKey |-> Trim(instance.apiKey),
     rootFolderPath |-> Trim(instance.rootFolderPath),
     qualityProfileId |-> ToNumber(Get(instance, "qualityProfileId"))]

normalizeSettings(settings) ==
    [ebooks |-> normalizeInstance(settings.ebooks),
     audio |-> normalizeInstance(settings.audio)]

\* how saveSettings gets on before its first await
SaveOutcome(settings) ==
    IF NormalizeThrows(settings) THEN "type_error"
    ELSE IF validateInstance(normalizeSettings(settings).ebooks) # "ok"
    THEN "invalid"
    ELSE IF validateInstance(normalizeSettings(settings).audio) # "ok"
    THEN "invalid"
    ELSE "ok"

\* variant: the environment is asked before the file
LoadOrderEnvFirst(fileSettings, envSettings) ==
    IF envSettings # <<>> THEN envSettings ELSE fileSettings

\* getSettings past the cache: the file, else the environment, else nothing
LoadOrder(fileSettings, envSettings) ==
    IF fileSettings # <<>> THEN fileSettings ELSE envSettings

SettingsState(settings) ==
    IF settings = <<>> THEN [configured |-> FALSE]
    ELSE [configured |-> TRUE, settings |-> settings[1]]

ValidInstance(baseUrl, path) ==
    [baseUrl |-> baseUrl, apiKey |-> <<"k">>, rootFolderPath |-> path,
     qualityProfileId |-> 2]

\* settings a file can hold: written by saveSettings, or by hand
FileSettings ==
    { [ebooks |-> ValidInstance(<<"e">>, <<"/","b">>),
       audio |-> ValidInstance(<<"a">>, <<"/","b">>)],
      [ebooks |-> ValidInstance(<<"e">>, <<"/","b"," ">>),
       audio |-> ValidInstance(<<"a">>, <<" ">>)] }

FileContents ==
    { <<>>, << [parses |-> FALSE] >> }
      \cup { << [parses |-> TRUE, value |-> v] >> : v \in FileSettings }

RawInstance(baseUrl, apiKey, path, profile) ==
    [baseUrl |-> baseUrl, apiKey |-> apiKey, rootFolderPath |-> path,
     qualityProfileId |-> profile]

\* settings a request body can carry; numbers are written in digits
RawSettings ==
    { [ebooks |-> RawInstance(<<"e","/","/">>, <<" ","k">>, <<"/","b"," ">>, <<"2">>),
       audio |-> RawInstance(<<"a">>, <<"k">>, <<"/","c">>, <<" ","1","3">>)],
      [ebooks |-> RawInstance(<<"e">>, <<"k">>, <<"/","b">>, <<"2">>),
       audio |-> RawInstance(<<"a">>, <<"k">>, <<" ">>, <<"2">>)],
      [ebooks |-> RawInstance(<<"e">>, <<"k">>, <<"/","b">>, <<"0">>),
       audio |-> RawInstance(<<"a">>, <<"k">>, <<"/","b">>, <<"2">>)],
      [ebooks |-> RawInstance(<<"/">>, <<"k">>, <<"/","b">>, <<"2">>),
       audio |-> RawInstance(<<"a">>, <<"k">>, <<"/","b">>, <<"x">>)],
      [ebooks |-> RawInstance(<<"e">>, Undefined, <<"/","b">>, <<"2">>),
       audio |-> RawInstance(<<"a">>, <<"k">>, <<"/","b">>, <<"2">>)] }

NoEnv == [NODE_ENV |-> <<>>]

SettingsEnvs ==
    { NoEnv,
      [READARR_EBOOKS_URL |-> <<"e","/">>, READARR_EBOOKS_APIKEY |-> <<" ","k">>,
       READARR_AUDIO_URL |-> <<"a">>, READARR_AUDIO_APIKEY |-> <<"k">>,
       EBOOKS_QUALITY_PROFILE_ID |-> <<"x">>, AUDIO_ROOT_FOLDER |-> <<" ","/","c">>,
       AUDIO_QUALITY_PROFILE_ID |-> <<"3">>],
      [READARR_EBOOKS_URL |-> <<"e">>, READARR_EBOOKS_APIKEY |-> <<" ">>,
       READARR_AUDIO_URL |-> <<"a">>, READARR_AUDIO_APIKEY |-> <<"k">>] }

\* the process starts: its environment and the file it finds
StBoot(env, file) ==
    /\ stPc = "off"
    /\ stPc' = "up"
    /\ processEnv' = env
    /\ settingsFile' = file
    /\ UNCHANGED <<cached, stReturned, stCalls, stLast, svPc, svInput,
                   svNormalized, svResult>>
    /\ UNCHANGED <<requestVars, remoteVars, searchVars, lookupVars, raceVars,
                   keyVars, apiVars, clientVars>>

\* what a getSettings call does to the store
getSettings ==
    /\ stCalls' = stCalls + 1
    /\ stLast' = "getSettings"
    /\ IF cached # <<>>
       THEN stReturned' = << SettingsState(cached) >> /\ UNCHANGED cached
       ELSE LET loaded == LoadOrder(loadFromFile(settingsFile),
                                    buildFromEnv(processEnv))
            IN /\ cached' = loaded
               /\ stReturned' = << SettingsState(loaded) >>
    /\ UNCHANGED <<stPc, processEnv, settingsFile, svPc, svInput, svNormalized,
                   svResult>>

GetSettings ==
    /\ stPc = "up"
    /\ stCalls < MaxSettingsCalls
    /\ getSettings
    /\ UNCHANGED <<requestVars, remoteVars, searchVars, lookupVars, raceVars,
                   keyVars, apiVars, clientVars>>

\* saveSettings up to its first await
saveSettings(settings) ==
    /\ stCalls' = stCalls + 1
    /\ stLast' = "saveSettings"
    /\ svInput' = << settings >>
    /\ IF SaveOutcome(settings) = "ok"
       THEN /\ svPc' = "writing"
            /\ svNormalized' = << normalizeSettings(settings) >>
            /\ svResult' = "pending"
       ELSE /\ svPc' = "idle"
            /\ svNormalized' = <<>>
            /\ svResult' = SaveOutcome(settings)
    /\ UNCHANGED <<stPc, processEnv, settingsFile, cached, stReturned>>

SaveBegin(settings) ==
    /\ stPc = "up"
    /\ svPc = "idle"
    /\ stCalls < MaxSettingsCalls
    /\ saveSettings(settings)
    /\ UNCHANGED <<requestVars, remoteVars, searchVars, lookupVars, raceVars,
                   keyVars, apiVars, clientVars>>

\* mkdir and writeFile end
SaveWrite(ok) ==
    /\ svPc = "writing"
    /\ IF ok
       THEN /\ settingsFile' = << [parses |-> TRUE, value |-> svNormalized[1]] >>
            /\ svPc' = "written"
            /\ UNCHANGED svResult
       ELSE /\ svPc' = "idle"
            /\ svResult' = "io_error"
            /\ UNCHANGED settingsFile
    /\ UNCHANGED <<stPc, processEnv, cached, stReturned, stCalls, stLast,
                   svInput, svNormalized>>
    /\ UNCHANGED <<requestVars, remoteVars, searchVars, lookupVars, raceVars,
                   keyVars, apiVars, clientVars>>

\* cached = normalized
SaveReturn ==
    /\ svPc = "written"
    /\ cached' = svNormalized
    /\ svPc' = "idle"
    /\ svResult' = "ok"
    /\ UNCHANGED <<stPc, processEnv, settingsFile, stReturned, stCalls, stLast,
                   svInput, svNormalized>>
    /\ UNCHANGED <<requestVars, remoteVars, searchVars, lookupVars, raceVars,
                   keyVars, apiVars, clientVars>>

\* somebody replaces or removes the settings file
FileReplaced(file) ==
    /\ stPc = "up"
    /\ svPc = "idle"
    /\ file # settingsFile
    /\ settingsFile' = file
    /\ UNCHANGED <<stPc, processEnv, cached, stReturned, stCalls, stLast, svPc,
                   svInput, svNormalized, svResult>>
    /\ UNCHANGED <<requestVars, remoteVars, searchVars, lookupVars, raceVars,
                   keyVars, apiVars, clientVars>>

SettingsInit ==
    /\ stPc = "off"
    /\ processEnv = NoEnv
    /\ settingsFile = <<>>
    /\ cached = <<>>
    /\ stReturned = <<>>
    /\ stCalls = 0
    /\ stLast = "none"
    /\ svPc = "idle"
    /\ svInput = <<>>
    /\ svNormalized = <<>>
    /\ svResult = "none"

(***************************************************************************)
(* The controller: authorization and routes                                *)
(***************************************************************************)
\* the printable characters, from code 32 on
Ascii ==
    << " ", "!", "quote", "#", "$", "%", "&", "'", "(", ")", "*", "+", ",", "-",
       ".", "/", "0", "1", "2", "3", "4", "5", "6", "7", "8", "9", ":", ";",
       "<", "=", ">", "?", "@", "A", "B", "C", "D", "E", "F", "G", "H", "I",
       "J", "K", "L", "M", "N", "O", "P", "Q", "R", "S", "T", "U", "V", "W",
       "X", "Y", "Z", "[", "backslash", "]", "^", "_", "backtick", "a", "b",
       "c", "d", "e", "f", "g", "h", "i", "j", "k", "l", "m", "n", "o", "p",
       "q", "r", "s", "t", "u", "v", "w", "x", "y", "z", "{", "|", "}", "~" >>

Base64Alphabet ==
    << "A", "B", "C", "D", "E", "F", "G", "H", "I", "J", "K", "L", "M", "N",
       "O", "P", "Q", "R", "S", "T", "U", "V", "W", "X", "Y", "Z", "a", "b",
       "c", "d", "e", "f", "g", "h", "i", "j", "k", "l", "m", "n", "o", "p",
       "q", "r", "s", "t", "u", "v", "w", "x", "y", "z", "0", "1", "2", "3",
       "4", "5", "6", "7", "8", "9", "+", "/" >>

CharCode(c) == 31 + (CHOOSE i \in DOMAIN Ascii : Ascii[i] = c)

CodeChar(n) == IF n \in 32..126 THEN Ascii[n - 31] ELSE "?"

SextetOf(c) ==
    (CHOOSE i \in DOMAIN Base64Alphabet : Base64Alphabet[i] = c) - 1

RECURSIVE SextetsToBytes(_)
SextetsToBytes(v) ==
    IF Len(v) < 2 THEN <<>>
    ELSE LET b1 == v[1] * 4 + v[2] \div 16
         IN IF Len(v) = 2 THEN << b1 >>
            ELSE LET b2 == (v[2] % 16) * 16 + v[3] \div 4
                 IN IF Len(v) = 3 THEN << b1, b2 >>
                    ELSE << b1, b2, (v[3] % 4) * 64 + v[4] >>
                           \o SextetsToBytes(SubSeq(v, 5, Len(v)))

RECURSIVE StripPadding(_)
StripPadding(s) ==
    IF s # <<>> /\ s[Len(s)] = "="
    THEN StripPadding(SubSeq(s, 1, Len(s) - 1))
    ELSE s

\* Buffer.from(s, "base64").toString("utf8"), for s in the base64 alphabet
Base64Decode(s) ==
    LET chars == StripPadding(s)
        bytes == SextetsToBytes([i \in DOMAIN chars |-> SextetOf(chars[i])])
    IN [i \in DOMAIN bytes |-> CodeChar(bytes[i])]

StartsWith(s, prefix) ==
    Len(s) >= Len(prefix) /\ SubSeq(s, 1, Len(prefix)) = prefix

Slice(s, n) == SubSeq(s, n + 1, Len(s))

\* decoded.split(":").slice(1).join(":")
RECURSIVE AfterFirstColon(_)
AfterFirstColon(s) ==
    IF s = <<>> THEN <<>>
    ELSE IF Head(s) = ":" THEN Tail(s)
    ELSE AfterFirstColon(Tail(s))

BasicPrefix == <<"B","a","s","i","c"," ">>

BearerPrefix == <<"B","e","a","r","e","r"," ">>

\* variant: a Bearer header is let through whatever its token
AuthorizedAnyBearer(header, auth) ==
    IF StartsWith(header, BasicPrefix)
    THEN AfterFirstColon(Base64Decode(Slice(header, 6))) = auth
    ELSE IF StartsWith(header, BearerPrefix) THEN TRUE
    ELSE Trim(header) = auth

Authorized(header, auth) ==
    IF StartsWith(header, BasicPrefix)
    THEN AfterFirstColon(Base64Decode(Slice(header, 6))) = auth
    ELSE IF StartsWith(header, BearerPrefix)
    THEN Trim(Slice(header, 7)) = auth
    ELSE Trim(header) = auth

\* config.auth
ConfigAuth == Trim(ToStr(Get(processEnv, "AUTH")))

RouteOf(req) ==
    CASE req.method = "GET" /\ req.path = "/api/health" -> "health"
      [] req.method = "GET" /\ req.path = "/api/settings" -> "getSettings"
      [] req.method = "POST" /\ req.path = "/api/settings" -> "saveSettings"
      [] req.method = "POST" /\ req.path = "/api/settings/test" -> "test"
      [] req.method = "GET" /\ req.path = "/api/search" -> "search"
      [] req.method = "POST" /\ req.path = "/api/request/ebook" -> "ebook"
      [] req.method = "POST" /\ req.path = "/api/request/audiobook" -> "audio"
      [] OTHER -> "none"

RequestRoutes == {"ebook", "audio"}

\* routes whose handler calls getSettings or saveSettings
SettingsRoutes == {"getSettings", "saveSettings", "search", "ebook", "audio"}

\* the status of the answer given before any handler work, 0 when there is none
Rejection(req) ==
    IF req.path # "/api/health" /\ ConfigAuth # <<>>
          /\ ~Authorized(req.authorization, ConfigAuth)
    THEN 401
    ELSE CASE RouteOf(req) = "saveSettings" /\ "settings" \notin DOMAIN req.body -> 400
           [] RouteOf(req) = "test"
                 /\ ~(/\ "instance" \in DOMAIN req.body
                      /\ req.body.instance \in {"ebooks", "audio"}
                      /\ "settings" \in DOMAIN req.body
                      /\ ToStr(Get(req.body.settings, "baseUrl")) # <<>>
                      /\ ToStr(Get(req.body.settings, "apiKey")) # <<>>)
                 -> 400
           [] RouteOf(req) = "search" /\ Trim(req.term) = <<>> -> 400
           [] RouteOf(req) \in RequestRoutes /\ "book" \notin DOMAIN req.body -> 400
           [] RouteOf(req) = "none" -> 404
           [] OTHER -> 0

\* Number.isFinite(existingId) && existingId > 0 ? existingId : undefined
ExistingIdOf(body) ==
    IF "existingId" \in DOMAIN body /\ body.existingId > 0
    THEN << body.existingId >>
    ELSE <<>>

\* the status the error handler gives a rejected requestBook or searchBooks
ErrorStatus(error) == IF error = "remote" THEN 502 ELSE 500

\* the status it gives a rejected saveSettings
SaveErrorStatus(result) == IF result = "invalid" THEN 400 ELSE 500

\* a request arrives: the authorization check, then the handler of its route
\* up to its first await
ApiReceive(req) ==
    /\ stPc = "up"
    /\ apiPc = "idle"
    /\ RouteOf(req) \in SettingsRoutes => stCalls < MaxSettingsCalls
    /\ RouteOf(req) \in RequestRoutes => rbCount < MaxRequests
    /\ RouteOf(req) = "saveSettings" => svPc = "idle"
    /\ apiRequest' = << req >>
    /\ IF Rejection(req) # 0
       THEN /\ apiResponse' = << [status |-> Rejection(req)] >>
            /\ apiPc' = "idle"
            /\ UNCHANGED <<apiSettings, settingsVars>>
       ELSE CASE RouteOf(req) = "health" ->
                   /\ apiResponse' = << [status |-> 200] >>
                   /\ apiPc' = "idle"
                   /\ UNCHANGED <<apiSettings, settingsVars>>
              [] RouteOf(req) = "getSettings" ->
                   /\ getSettings
                   /\ apiResponse' = << [status |-> 200, state |-> stReturned'[1]] >>
                   /\ apiPc' = "idle"
                   /\ UNCHANGED apiSettings
              [] RouteOf(req) = "saveSettings" ->
                   /\ saveSettings(req.body.settings)
                   /\ IF SaveOutcome(req.body.settings) = "ok"
                      THEN apiPc' = "busy" /\ apiResponse' = <<>>
                      ELSE /\ apiPc' = "idle"
                           /\ apiResponse' = << [status |->
                                 SaveErrorStatus(SaveOutcome(req.body.settings))] >>
                   /\ UNCHANGED apiSettings
              [] RouteOf(req) = "test" ->
                   /\ apiPc' = "busy"
                   /\ apiResponse' = <<>>
                   /\ UNCHANGED <<apiSettings, settingsVars>>
              [] OTHER ->
                   /\ getSettings
                   /\ IF cached' = <<>>
                      THEN /\ apiResponse' = << [status |-> 412] >>
                           /\ apiPc' = "idle"
                           /\ UNCHANGED apiSettings
                      ELSE /\ apiResponse' = <<>>
                           /\ apiPc' = "ready"
                           /\ apiSettings' = cached'
    /\ apiCalls' = <<>>
    /\ UNCHANGED <<requestVars, remoteVars, searchVars, lookupVars, raceVars,
                   keyVars, clientVars>>

\* settings.ebooks or settings.audio, as the InstanceConfig requestBook takes
RouteInstance ==
    LET instance ==
            apiSettings[1][IF RouteOf(apiRequest[1]) = "ebook" THEN "ebooks"
                           ELSE "audio"]
    IN IF IsFinite(instance.qualityProfileId) THEN instance
       ELSE [baseUrl |-> instance.baseUrl, apiKey |-> instance.apiKey,
             rootFolderPath |-> instance.rootFolderPath]

\* the request handler calls requestBook
ApiRequestBook ==
    /\ apiPc = "ready"
    /\ RouteOf(apiRequest[1]) \in RequestRoutes
    /\ rbPc = "idle"
    /\ RbBegin(RouteInstance, << apiRequest[1].body.book >>,
               ExistingIdOf(apiRequest[1].body))

\* requestBook has settled: res.json or the error handler
ApiRequestDone ==
    /\ apiPc = "ready"
    /\ RouteOf(apiRequest[1]) \in RequestRoutes
    /\ rbPc = "done"
    /\ apiResponse' =
          << [status |-> IF rbResult = "ok" THEN 200 ELSE ErrorStatus(rbError)] >>
    /\ apiPc' = "idle"
    /\ apiSettings' = <<>>
    /\ rbPc' = "idle"
    /\ rbInstance' = [baseUrl |-> <<>>]
    /\ rbLookup' = <<>>
    /\ rbExistingId' = <<>>
    /\ monitorSucceeded' = FALSE
    /\ searchSucceeded' = FALSE
    /\ rbExisting' = <<>>
    /\ rbDefaults' = <<>>
    /\ rbCalls' = <<>>
    /\ rbResult' = "pending"
    /\ rbError' = "none"
    /\ UNCHANGED <<rbCount, defaultsCache, now>>
    /\ UNCHANGED <<apiRequest, apiCalls>>
    /\ UNCHANGED <<remoteVars, searchVars, lookupVars, raceVars, keyVars,
                   settingsVars, clientVars>>

\* the search handler calls searchBooks
ApiSearch(rawLimit, failed) ==
    /\ apiPc = "ready"
    /\ RouteOf(apiRequest[1]) = "search"
    /\ SbSearch(Trim(apiRequest[1].term), rawLimit, failed)

\* searchBooks has settled
ApiSearchDone ==
    /\ apiPc = "ready"
    /\ RouteOf(apiRequest[1]) = "search"
    /\ sbStatus # "idle"
    /\ apiResponse' =
          << IF sbStatus = "ok" THEN [status |-> 200, items |-> sbItems]
             ELSE [status |-> 502] >>
    /\ apiPc' = "idle"
    /\ apiSettings' = <<>>
    /\ sbStatus' = "idle"
    /\ sbTerm' = <<>>
    /\ sbFailed' = <<>>
    /\ sbLookup' = [i \in Instances |-> <<>>]
    /\ sbItems' = <<>>
    /\ UNCHANGED <<apiRequest, apiCalls>>
    /\ UNCHANGED <<requestVars, remoteVars, lookupVars, raceVars, keyVars,
                   settingsVars, clientVars>>

\* saveSettings has settled
ApiSaved ==
    /\ apiPc = "busy"
    /\ RouteOf(apiRequest[1]) = "saveSettings"
    /\ svPc = "idle"
    /\ apiResponse' =
          << [status |-> IF svResult = "ok" THEN 200 ELSE SaveErrorStatus(svResult)] >>
    /\ apiPc' = "idle"
    /\ UNCHANGED <<apiRequest, apiSettings, apiCalls>>
    /\ UNCHANGED <<requestVars, remoteVars, searchVars, lookupVars, raceVars,
                   keyVars, settingsVars, clientVars>>

\* testConnection: one GET against the instance the body describes
ApiTested(ok) ==
    /\ apiPc = "busy"
    /\ RouteOf(apiRequest[1]) = "test"
    /\ apiCalls' = Append(apiCalls,
          Call(apiRequest[1].body.settings, "GET", "/api/v1/system/status",
               <<>>, ok))
    /\ apiResponse' = << [status |-> IF ok THEN 200 ELSE 502] >>
    /\ apiPc' = "idle"
    /\ UNCHANGED <<apiRequest, apiSettings>>
    /\ UNCHANGED <<requestVars, remoteVars, searchVars, lookupVars, raceVars,
                   keyVars, settingsVars, clientVars>>

ApiInit ==
    /\ apiPc = "idle"
    /\ apiRequest = <<>>
    /\ apiSettings = <<>>
    /\ apiResponse = <<>>
    /\ apiCalls = <<>>

(***************************************************************************)
(* The client                                                              *)
(***************************************************************************)
MaxFetches == 4

MaxPending == 2

\* the header the client sends, <<>> when it sends none
normalizeAuthHeader(token) ==
    IF Trim(token) = <<>> THEN <<>>
    ELSE IF StartsWith(Trim(token), BasicPrefix)
            \/ StartsWith(Trim(token), BearerPrefix)
    THEN Trim(token)
    ELSE BearerPrefix \o Trim(token)

InstanceName(instance) ==
    IF instance = "ebook" THEN <<"e","b","o","o","k">>
    ELSE <<"a","u","d","i","o">>

\* `${key}-${instance}`
buildRequestKey(key, instance) == key \o <<"-">> \o InstanceName(instance)

\* requestState[key], <<>> when it has none
RequestStateOf(state, key) ==
    IF key \in DOMAIN state THEN << state[key] >> ELSE <<>>

\* { ...prev, [key]: value }
WithRequestState(prev, key, value) ==
    [k \in DOMAIN prev \cup {key} |-> IF k = key THEN value ELSE prev[k]]

NoRequestState == [k \in {} |-> "idle"]

\* term.trim().length > 2 && configured
canSearch(term) == Len(Trim(term)) > 2 /\ clConfigured

InstanceViewOf(item, instance) ==
    IF instance = "ebook" THEN item.ebook ELSE item.audio

\* variant: the flag of both instance views is set
RECURSIVE MarkAddedBothViews(_, _, _)
MarkAddedBothViews(prev, key, instance) ==
    IF prev = <<>> THEN <<>>
    ELSE << IF Head(prev).key = key
            THEN [Head(prev) EXCEPT !.ebook.alreadyAdded = TRUE,
                                    !.audio.alreadyAdded = TRUE]
            ELSE Head(prev) >>
           \o MarkAddedBothViews(Tail(prev), key, instance)

\* prev.map(entry => entry.key === item.key ? { ...entry, [instance]:
\* { ...entry[instance], alreadyAdded: true } } : entry)
RECURSIVE MarkAdded(_, _, _)
MarkAdded(prev, key, instance) ==
    IF prev = <<>> THEN <<>>
    ELSE << IF Head(prev).key = key
            THEN IF instance = "ebook"
                 THEN [Head(prev) EXCEPT !.ebook.alreadyAdded = TRUE]
                 ELSE [Head(prev) EXCEPT !.audio.alreadyAdded = TRUE]
            ELSE Head(prev) >>
           \o MarkAdded(Tail(prev), key, instance)

\* the request a fetch puts on the wire
ClientRequest(fetch) ==
    CASE fetch.kind = "settings" ->
           [seq |-> fetch.seq, method |-> "GET", path |-> "/api/settings",
            authorization |-> fetch.header, term |-> <<>>,
            body |-> [x \in {} |-> 0]]
      [] fetch.kind = "search" ->
           [seq |-> fetch.seq, method |-> "GET", path |-> "/api/search",
            authorization |-> fetch.header, term |-> Trim(fetch.term),
            body |-> [x \in {} |-> 0]]
      [] OTHER ->
           [seq |-> fetch.seq, method |-> "POST",
            path |-> IF fetch.instance = "ebook" THEN "/api/request/ebook"
                     ELSE "/api/request/audiobook",
            authorization |-> fetch.header, term |-> <<>>,
            body |-> [book |-> fetch.lookup]]

NewFetch(kind) ==
    [seq |-> clFetches + 1, kind |-> kind,
     header |-> normalizeAuthHeader(clAuthToken)]

CanFetch == clFetches < MaxFetches /\ Len(clPending) < MaxPending

\* the oldest fetch has gone out and the controller has taken it
HeadSent ==
    /\ clPending # <<>>
    /\ apiRequest # <<>>
    /\ "seq" \in DOMAIN apiRequest[1]
    /\ apiRequest[1].seq = clPending[1].seq

\* the oldest fetch, of the given kind, has its answer
HeadAnswered(kind) ==
    /\ HeadSent
    /\ clPending[1].kind = kind
    /\ apiPc = "idle"
    /\ apiResponse # <<>>

ServerUnchanged ==
    UNCHANGED <<requestVars, remoteVars, searchVars, lookupVars, raceVars,
                keyVars, settingsVars, apiVars>>

\* the page is opened: the effect calls loadSettings
ClMount ==
    /\ clFetches = 0
    /\ clPending' = Append(clPending, NewFetch("settings"))
    /\ clFetches' = clFetches + 1
    /\ UNCHANGED <<clAuthToken, clConfigured, clResults, clLoading, clError,
                   clRequestState>>
    /\ ServerUnchanged

\* the user types another token: authHeaders changes and loadSettings runs again
ClSetAuthToken(token) ==
    /\ clFetches > 0
    /\ CanFetch
    /\ token # clAuthToken
    /\ clAuthToken' = token
    /\ clPending' =
          Append(clPending,
                 [NewFetch("settings") EXCEPT !.header = normalizeAuthHeader(token)])
    /\ clFetches' = clFetches + 1
    /\ UNCHANGED <<clConfigured, clResults, clLoading, clError, clRequestState>>
    /\ ServerUnchanged

\* the oldest fetch reaches the controller
ClSend ==
    /\ clPending # <<>>
    /\ ~HeadSent
    /\ ApiReceive(ClientRequest(clPending[1]))

\* loadSettings goes on after its fetch
ClSettingsLoaded ==
    /\ HeadAnswered("settings")
    /\ clConfigured' =
          (/\ apiResponse[1].status = 200
           /\ apiResponse[1].state.configured)
    /\ clPending' = Tail(clPending)
    /\ UNCHANGED <<clAuthToken, clResults, clLoading, clError, clRequestState,
                   clFetches>>
    /\ ServerUnchanged

\* handleSearch up to its fetch
ClHandleSearch(term) ==
    /\ clFetches > 0
    /\ IF ~canSearch(term)
       THEN /\ clError' = << IF clConfigured THEN 3 ELSE 0 >>
            /\ UNCHANGED <<clLoading, clPending, clFetches>>
       ELSE /\ CanFetch
            /\ clLoading' = TRUE
            /\ clError' = <<>>
            /\ clPending' = Append(clPending, NewFetch("search") @@ [term |-> term])
            /\ clFetches' = clFetches + 1
    /\ UNCHANGED <<clAuthToken, clConfigured, clResults, clRequestState>>
    /\ ServerUnchanged

\* handleSearch goes on after its fetch
ClSearchDone ==
    /\ HeadAnswered("search")
    /\ IF apiResponse[1].status = 200
       THEN /\ clResults' = apiResponse[1].items
            /\ clRequestState' = NoRequestState
            /\ UNCHANGED clError
       ELSE /\ clError' = << apiResponse[1].status >>
            /\ clResults' = <<>>
            /\ UNCHANGED clRequestState
    /\ clLoading' = FALSE
    /\ clPending' = Tail(clPending)
    /\ UNCHANGED <<clAuthToken, clConfigured, clFetches>>
    /\ ServerUnchanged

\* the button of an instance view can be pressed
ButtonEnabled(item, instance) ==
    /\ InstanceViewOf(item, instance).available
    /\ ~InstanceViewOf(item, instance).alreadyAdded
    /\ RequestStateOf(clRequestState, buildRequestKey(item.key, instance))
          # << "loading" >>

\* requestBook up to its fetch
ClRequestBook(i, instance) ==
    /\ i \in DOMAIN clResults
    /\ ButtonEnabled(clResults[i], instance)
    /\ IF InstanceViewOf(clResults[i], instance).lookup = <<>>
       THEN UNCHANGED <<clRequestState, clError, clPending, clFetches>>
       ELSE /\ CanFetch
            /\ clRequestState' =
                  WithRequestState(clRequestState,
                                   buildRequestKey(clResults[i].key, instance),
                                   "loading")
            /\ clError' = <<>>
            /\ clPending' =
                  Append(clPending,
                         NewFetch("request")
                           @@ [key |-> clResults[i].key, instance |-> instance,
                               lookup |-> InstanceViewOf(clResults[i], instance).lookup[1],
                               existingId |->
                                  InstanceViewOf(clResults[i], instance).existingId])
            /\ clFetches' = clFetches + 1
    /\ UNCHANGED <<clAuthToken, clConfigured, clResults, clLoading>>
    /\ ServerUnchanged

\* requestBook goes on after its fetch
ClRequestDone ==
    /\ HeadAnswered("request")
    /\ LET fetch == clPending[1]
           key == buildRequestKey(fetch.key, fetch.instance)
       IN IF apiResponse[1].status = 200
          THEN /\ clResults' = MarkAdded(clResults, fetch.key, fetch.instance)
               /\ clRequestState' = WithRequestState(clRequestState, key, "success")
               /\ UNCHANGED clError
          ELSE /\ clError' = << apiResponse[1].status >>
               /\ clRequestState' = WithRequestState(clRequestState, key, "error")
               /\ UNCHANGED clResults
    /\ clPending' = Tail(clPending)
    /\ UNCHANGED <<clAuthToken, clConfigured, clLoading, clFetches>>
    /\ ServerUnchanged

ClientInit ==
    /\ clAuthToken = <<"s">>
    /\ clConfigured = FALSE
    /\ clResults = <<>>
    /\ clLoading = FALSE
    /\ clError = <<>>
    /\ clRequestState = NoRequestState
    /\ clPending = <<>>
    /\ clFetches = 0

(***************************************************************************)
(* Specifications                                                          *)
(***************************************************************************)
Init ==
    /\ RequestInit /\ RemoteInit /\ SearchInit /\ LookupInit /\ RaceInit
    /\ KeyInit /\ SettingsInit /\ ApiInit /\ ClientInit

\* requestBook invocations, one at a time, while time passes
Next ==
    \/ \E instance \in InstanceConfigs, lookup \in LookupArgs,
          existingId \in ExistingIdArgs : RbBegin(instance, lookup, existingId)
    \/ \E ok \in BOOLEAN : RbMonitor(ok)
    \/ \E ok \in BOOLEAN : RbSearch(ok)
    \/ \E ok \in BOOLEAN, book \in FetchedBooks : RbFetch(ok, book)
    \/ \E ok \in BOOLEAN : RbPut(ok)
    \/ \E rootOk \in BOOLEAN, profileOk \in BOOLEAN,
          rootFolders \in RootFolderLists, profiles \in QualityProfileLists :
          RbResolve(rootOk, profileOk, rootFolders, profiles)
    \/ \E ok \in BOOLEAN : RbCreate(ok)
    \/ Tick

Spec == Init /\ [][Next]_vars

\* searches against two remotes whose answers vary
SearchNext ==
    \/ \E instance \in Instances, book \in LookupPool, newPage \in BOOLEAN :
          RemoteAddLookup(instance, book, newPage)
    \/ \E instance \in Instances, book \in OwnedPool :
          RemoteAddOwned(instance, book)
    \/ \E term \in Terms, rawLimit \in LookupLimitEnv,
          failed \in {<<>>} \cup {<< c >> : c \in SearchCalls} :
          SbSearch(term, rawLimit, failed)
    \/ SbReset

SpecSearch == Init /\ [][SearchNext]_vars

\* paged lookups against one remote whose answer varies
LookupNext ==
    \/ \E book \in LookupPool, newPage \in BOOLEAN :
          RemoteAddLookup("ebook", book, newPage)
    \/ \E limit \in LookupLimits : LbBegin(limit)
    \/ \E ok \in BOOLEAN : LbPage(ok)
    \/ LbReset

SpecLookup == Init /\ [][LookupNext]_vars

(***************************************************************************)
(* Properties of requestBook                                               *)
(***************************************************************************)
CallIdx(method, path) ==
    {i \in DOMAIN rbCalls : rbCalls[i].method = method /\ rbCalls[i].path = path}

MonitorIdx == CallIdx("POST", "/api/v1/book/monitor")
CommandIdx == CallIdx("POST", "/api/v1/command")
FetchIdx == CallIdx("GET", "/api/v1/book/{id}")
PutIdx == CallIdx("PUT", "/api/v1/book")
CreateIdx == CallIdx("POST", "/api/v1/book")
ListingIdx ==
    CallIdx("GET", "/api/v1/rootfolder") \cup CallIdx("GET", "/api/v1/qualityprofile")

SomeOk(idx) == \E i \in idx : rbCalls[i].ok
SomeFailed(idx) == \E i \in idx : ~rbCalls[i].ok

\* the current invocation was called with an existingId
ReRequest == rbPc # "idle" /\ rbExistingId # <<>>

\* C1: in re-request mode, when the monitor call or the search-trigger call
\* succeeded, no fetch by id and no full update is issued, and the invocation
\* ends in success.
C1_PartialSuccessNoFallback ==
    (ReRequest /\ (SomeOk(MonitorIdx) \/ SomeOk(CommandIdx))) =>
        /\ FetchIdx = {} /\ PutIdx = {}
        /\ rbResult # "error"
        /\ (rbPc = "done" => rbResult = "ok")

C1_Witness ==
    /\ ReRequest /\ rbPc = "done"
    /\ SomeFailed(MonitorIdx) /\ SomeOk(CommandIdx)
    /\ rbResult = "ok"

\* C2: in re-request mode, when both the monitor call and the search-trigger
\* call failed, the record is fetched by id before any full update is sent,
\* a successful fetch is followed by the update, and when both succeed the
\* invocation ends in success.
C2_FallbackFetchThenUpdate ==
    (ReRequest /\ SomeFailed(MonitorIdx) /\ SomeFailed(CommandIdx)) =>
        /\ \A j \in PutIdx : \E i \in FetchIdx : i < j /\ rbCalls[i].ok
        /\ rbPc = "done" =>
              /\ FetchIdx # {}
              /\ (SomeOk(FetchIdx) => PutIdx # {})
              /\ ((SomeOk(FetchIdx) /\ SomeOk(PutIdx)) => rbResult = "ok")

C2_Witness ==
    /\ ReRequest /\ rbPc = "done"
    /\ SomeFailed(MonitorIdx) /\ SomeFailed(CommandIdx)
    /\ SomeOk(FetchIdx) /\ SomeOk(PutIdx)
    /\ rbResult = "ok"

\* C3: a finished re-request invocation has failed exactly when the monitor
\* call failed, the search-trigger call failed and the fetch by id or the full
\* update failed; after a failed fetch no update is sent.
C3_FailsIffAllFail ==
    (ReRequest /\ rbPc = "done") =>
        /\ rbResult = "error" <=>
              /\ SomeFailed(MonitorIdx)
              /\ SomeFailed(CommandIdx)
              /\ (SomeFailed(FetchIdx) \/ SomeFailed(PutIdx))
        /\ SomeFailed(FetchIdx) => PutIdx = {}

C3_Witness ==
    /\ ReRequest /\ rbPc = "done"
    /\ SomeFailed(MonitorIdx) /\ SomeFailed(CommandIdx)
    /\ SomeFailed(FetchIdx) /\ PutIdx = {}
    /\ rbResult = "error"

\* C4: in re-request mode the search-trigger call is attempted exactly once,
\* after the monitor call whatever its outcome, and the fallback calls come
\* only after both attempts.
C4_SearchAlwaysAttemptedOnce ==
    ReRequest =>
        /\ Cardinality(CommandIdx) <= 1
        /\ Cardinality(MonitorIdx) <= 1
        /\ \A j \in CommandIdx : \E i \in MonitorIdx : i < j
        /\ \A k \in FetchIdx \cup PutIdx :
              /\ \E i \in MonitorIdx : i < k
              /\ \E j \in CommandIdx : j < k
        /\ rbPc = "done" => Cardinality(CommandIdx) = 1

C4_Witness ==
    /\ ReRequest /\ rbPc = "done"
    /\ SomeOk(MonitorIdx) /\ SomeFailed(CommandIdx)
    /\ rbResult = "ok"

\* C5: an invocation with an existingId never takes the create path: no
\* create call, no root-folder or quality-profile listing, no defaults.
C5_ReRequestNeverCreates ==
    ReRequest =>
        /\ CreateIdx = {}
        /\ ListingIdx = {}
        /\ rbDefaults = <<>>
        /\ rbPc \notin {"resolve", "create"}

C5_Witness ==
    /\ ReRequest /\ rbPc = "done"
    /\ rbLookup # <<>>
    /\ ~HasExplicitDefaults(rbInstance)
    /\ rbResult = "error"

(***************************************************************************)
(* Properties of searchBooks                                               *)
(***************************************************************************)
\* the identities the lookup of an instance returned
LookupKeys(instance) ==
    {pickKey(sbLookup[instance][i]) : i \in DOMAIN sbLookup[instance]} \ {<<>>}

\* the catalog records of an instance with a given identity
OwnedWith(instance, key) ==
    {i \in DOMAIN catalog[instance] : pickKey(catalog[instance][i]) = key}

ItemsWith(key) == {i \in DOMAIN sbItems : sbItems[i].key = key}

ViewOf(item, instance) == IF instance = "ebook" THEN item.ebook ELSE item.audio

\* the audio catalog holds exactly one record of the identity, and it is
\* complete (has an id, monitored, has a file) and matches the term
AudioOwnsComplete(key) ==
    /\ Cardinality(OwnedWith("audio", key)) = 1
    /\ \A i \in OwnedWith("audio", key) :
          /\ "id" \in DOMAIN catalog["audio"][i]
          /\ MonitoredOrTrue(catalog["audio"][i])
          /\ hasFile(catalog["audio"][i])
          /\ matchesTerm(sbTerm, catalog["audio"][i])

\* C6: an identity returned by the ebook lookup, not owned by the ebook
\* instance, not returned by the audio lookup, and owned complete by the
\* audio instance (here even with a record that matches the term) gives one
\* item with ebook available and not added, audio available and added, and
\* audio.existingId the id of the catalog record.
C6_OwnedElsewhereMerged ==
    sbStatus = "ok" =>
        \A key \in LookupKeys("ebook") :
            ( /\ OwnedWith("ebook", key) = {}
              /\ key \notin LookupKeys("audio")
              /\ AudioOwnsComplete(key) ) =>
            /\ Cardinality(ItemsWith(key)) = 1
            /\ \A i \in ItemsWith(key) :
                  /\ sbItems[i].ebook.available
                  /\ ~sbItems[i].ebook.alreadyAdded
                  /\ sbItems[i].audio.available
                  /\ sbItems[i].audio.alreadyAdded
                  /\ \A j \in OwnedWith("audio", key) :
                        sbItems[i].audio.existingId = << catalog["audio"][j].id >>

\* C7: in every returned item and each of its two views, alreadyAdded
\* implies that existingId is set and that hasFile and monitored are true.
C7_OwnershipComplete ==
    sbStatus = "ok" =>
        \A i \in DOMAIN sbItems : \A instance \in Instances :
            ViewOf(sbItems[i], instance).alreadyAdded =>
                /\ ViewOf(sbItems[i], instance).existingId # <<>>
                /\ ViewOf(sbItems[i], instance).hasFile = << TRUE >>
                /\ ViewOf(sbItems[i], instance).monitored = << TRUE >>

C7_Witness ==
    /\ sbStatus = "ok"
    /\ \E i \in DOMAIN sbItems :
          /\ sbItems[i].ebook.alreadyAdded
          /\ sbItems[i].ebook.lookup # <<>>
    /\ \E i \in DOMAIN sbItems :
          /\ sbItems[i].audio.available
          /\ ~sbItems[i].audio.alreadyAdded
          /\ sbItems[i].audio.existingId # <<>>

\* C8: in every returned item a view is available exactly when the lookup of
\* that instance returned a record of the item's identity or the catalog of
\* that instance holds a record of that identity that matches the term.
C8_AvailableIffReturnedOrOwned ==
    sbStatus = "ok" =>
        \A i \in DOMAIN sbItems : \A instance \in Instances :
            ViewOf(sbItems[i], instance).available <=>
                \/ sbItems[i].key \in LookupKeys(instance)
                \/ \E j \in OwnedWith(instance, sbItems[i].key) :
                      matchesTerm(sbTerm, catalog[instance][j])

\* C9: no two returned items have the same key.
C9_OneItemPerKey ==
    sbStatus = "ok" =>
        \A i, j \in DOMAIN sbItems :
            sbItems[i].key = sbItems[j].key => i = j

\* an identity returned by both lookups and held, matching the term, by a
\* catalog is one item
C9_Witness ==
    /\ sbStatus = "ok"
    /\ \E key \in LookupKeys("ebook") \cap LookupKeys("audio") :
          /\ Cardinality(ItemsWith(key)) = 1
          /\ \E instance \in Instances :
                \E j \in OwnedWith(instance, key) :
                    matchesTerm(sbTerm, catalog[instance][j])

(***************************************************************************)
(* Properties of lookupBooks                                               *)
(***************************************************************************)
\* the step machine and the function agree
LookupAgrees ==
    (lbPc = "done" /\ lbStatus = "ok") =>
        lbResults = lookupBooks(lookupPages["ebook"], lbLimit)

\* C10 as stated: no two returned records resolve to the same identity
\* (pickKey), records that resolve to the empty key included.
C10_NoTwoSameIdentity ==
    \A i, j \in DOMAIN lbResults :
        pickKey(lbResults[i]) = pickKey(lbResults[j]) => i = j

\* C10 amended: no two returned records have the same non-empty identity.
C10_NoTwoSameResolvedIdentity ==
    \A i, j \in DOMAIN lbResults :
        ( /\ pickKey(lbResults[i]) # <<>>
          /\ pickKey(lbResults[i]) = pickKey(lbResults[j]) ) => i = j

\* a finished lookup over two pages that repeat an identity within the first
\* page and across the pages
C10_Witness ==
    /\ lbPc = "done" /\ lbStatus = "ok"
    /\ lbRequests = 2
    /\ Len(lookupPages["ebook"]) = 2
    /\ Len(lbResults) = 1
    /\ \E a, b \in DOMAIN lookupPages["ebook"][1] :
          /\ a # b
          /\ pickKey(lookupPages["ebook"][1][a]) # <<>>
          /\ pickKey(lookupPages["ebook"][1][a]) = pickKey(lookupPages["ebook"][1][b])
    /\ \E a \in DOMAIN lookupPages["ebook"][1], b \in DOMAIN lookupPages["ebook"][2] :
          /\ pickKey(lookupPages["ebook"][1][a]) # <<>>
          /\ pickKey(lookupPages["ebook"][1][a]) = pickKey(lookupPages["ebook"][2][b])

(***************************************************************************)
(* Paged lookups against a remote with many distinct records               *)
(***************************************************************************)
MaxPaged == 6

DigitChars == <<"1", "2", "3", "4", "5", "6", "7", "8", "9">>

\* the n-th distinct record the remote can answer with
DistinctBook(n) ==
    [title |-> <<"B">>, foreignBookId |-> << DigitChars[n] >>]

\* the remote's lookup answer gains a record nobody has seen, or its first
\* record once more, on its last page or on a new one
RemotePublish(repeat, newPage) ==
    /\ Quiet
    /\ PagesSize(lookupPages["ebook"]) < MaxPaged
    /\ (repeat \/ newPage) => lookupPages["ebook"] # <<>>
    /\ LET pages == lookupPages["ebook"]
           book == IF repeat THEN Head(Head(pages))
                   ELSE DistinctBook(PagesSize(pages) + 1)
       IN lookupPages' =
             [lookupPages EXCEPT !["ebook"] =
                 IF newPage \/ @ = <<>>
                 THEN Append(@, << book >>)
                 ELSE [@ EXCEPT ![Len(@)] = Append(@, book)]]
    /\ UNCHANGED <<catalog, remoteRootFolders, requestVars, searchVars, lookupVars, raceVars, outerVars>>

PagingNext ==
    \/ \E repeat \in BOOLEAN, newPage \in BOOLEAN : RemotePublish(repeat, newPage)
    \/ \E limit \in LookupLimits : LbBegin(limit)
    \/ \E ok \in BOOLEAN : LbPage(ok)
    \/ LbReset

SpecPaging == Init /\ [][PagingNext]_vars

(***************************************************************************)
(* Properties of the paging of lookupBooks                                 *)
(***************************************************************************)
EbookPage(p) == PageAt(lookupPages["ebook"], p)

\* the identities lookupBooks sees on a page, and on the pages before it
PageKeys(p) == {pickLookupKey(EbookPage(p)[i]) : i \in DOMAIN EbookPage(p)}

KeysBefore(p) == UNION {PageKeys(q) : q \in 1..(p - 1)}

NewOnPage(p) == PageKeys(p) \ KeysBefore(p)

\* the page holds records, each of them an identity not seen before
AllNewOnPage(p) ==
    /\ EbookPage(p) # <<>>
    /\ Cardinality(NewOnPage(p)) = Len(EbookPage(p))

\* the records on the first n pages
RecordsUpTo(n) ==
    PagesSize(SubSeq(lookupPages["ebook"], 1,
                     IF n < Len(lookupPages["ebook"]) THEN n
                     ELSE Len(lookupPages["ebook"])))

LookupDone == lbPc = "done" /\ lbStatus = "ok"

C11_StalePageReached ==
    /\ LookupDone
    /\ lbRequests = 2
    /\ EbookPage(2) # <<>>
    /\ NewOnPage(2) = {}
    /\ Len(lookupPages["ebook"]) > 2

\* the least number of pages of five that hold limit records, at least one
PageCap(limit) ==
    CHOOSE n \in 1..(limit + 1) :
        /\ 5 * n >= limit
        /\ n = 1 \/ 5 * (n - 1) < limit

C12_CapReached ==
    /\ LookupDone
    /\ Len(lbResults) < lbLimit
    /\ lbRequests = 2
    /\ AllNewOnPage(2)
    /\ AllNewOnPage(3)

(***************************************************************************)
(* Properties of searchBooks as a whole                                    *)
(***************************************************************************)
\* C13: searchBooks is all-or-nothing: when one of the two lookups or the
\* two catalog listings rejects, the search fails and returns no items, and
\* a search that returned (merged) had all four calls fulfilled.
C13_AllOrNothing ==
    /\ sbFailed # <<>> => (sbStatus = "error" /\ sbItems = <<>>)
    /\ sbStatus = "ok" => sbFailed = <<>>

\* a failed search whose audio catalog listing rejected while the ebook
\* lookup and the ebook catalog had records to merge
C13_Witness ==
    /\ sbStatus = "error"
    /\ sbFailed = <<"audioExisting">>
    /\ lookupPages["ebook"] # <<>>
    /\ catalog["ebook"] # <<>>

\* the records of a lookup answer with a given identity, in order
LookupWith(instance, key) ==
    SelectSeq(sbLookup[instance], LAMBDA b : pickKey(b) = key)

\* the catalog records of an instance that the sweep can turn into an item
\* of a given identity, in order
SweptWith(instance, key) ==
    SelectSeq(catalog[instance],
              LAMBDA b : /\ matchesTerm(sbTerm, b)
                         /\ pickKey(b) = key
                         /\ MapHas(mapExisting(catalog[instance]), key))

\* the records of an identity in the order of the merge: ebook lookup, audio
\* lookup, ebook catalog, audio catalog
MergeOrder(key) ==
    LookupWith("ebook", key) \o LookupWith("audio", key)
      \o SweptWith("ebook", key) \o SweptWith("audio", key)

\* C14: the title, author, isbn13, foreignBookId and goodreadsId of an item
\* are those of the first record of its identity in the order of the merge,
\* and the view of each backend comes from that backend's records alone: from
\* its last lookup record of the identity if it has one, and otherwise it is
\* the zero view or the view of its own catalog entry.
C14_FirstRecordNamesItem ==
    sbStatus = "ok" =>
        \A i \in DOMAIN sbItems :
            LET item == sbItems[i]
                first == Head(MergeOrder(item.key))
            IN /\ MergeOrder(item.key) # <<>>
               /\ item.title = pickTitle(first)
               /\ item.author = pickAuthor(first)
               /\ item.isbn13 = pickIsbn13(first)
               /\ item.foreignBookId = Get(first, "foreignBookId")
               /\ item.goodreadsId = pickGoodreadsId(first)
               /\ \A instance \in Instances :
                     LET own == LookupWith(instance, item.key)
                         existing == MapGet(mapExisting(catalog[instance]), item.key)
                     IN IF own # <<>>
                        THEN ViewOf(item, instance) =
                               LookupView(existing, own[Len(own)])
                        ELSE \/ ViewOf(item, instance) = EmptyView
                             \/ /\ existing # <<>>
                                /\ ViewOf(item, instance) = OwnedView(existing)

\* an item named by the ebook lookup while the audio lookup returned a record
\* of the same identity with another title and author, which filled the
\* audio view
C14_Witness ==
    /\ sbStatus = "ok"
    /\ \E i \in DOMAIN sbItems :
          LET ebookOwn == LookupWith("ebook", sbItems[i].key)
              audioOwn == LookupWith("audio", sbItems[i].key)
          IN /\ ebookOwn # <<>> /\ audioOwn # <<>>
             /\ pickTitle(Head(ebookOwn)) # pickTitle(Head(audioOwn))
             /\ pickAuthor(Head(ebookOwn)) # pickAuthor(Head(audioOwn))
             /\ sbItems[i].audio.lookup = << Head(audioOwn) >>
             /\ sbItems[i].title = pickTitle(Head(ebookOwn))

(***************************************************************************)
(* Searches against remotes whose records share titles                     *)
(***************************************************************************)
TitlePool ==
    { [title |-> <<"D","u">>, isbn13 |-> <<"9","7">>],
      [title |-> <<"D","u">>],
      [title |-> <<"d","u">>, authorName |-> <<"T","o">>],
      [title |-> <<"A","b">>, authorName |-> <<"T","o">>] }

OwnedTitlePool ==
    { [id |-> 4, title |-> <<"D","u">>, authorName |-> <<"T","o">>],
      [id |-> 6, title |-> <<"A","b">>, authorName |-> <<"T","o">>, monitored |-> FALSE] }

OrderNext ==
    \/ \E instance \in Instances, book \in TitlePool, newPage \in BOOLEAN :
          RemoteAddLookup(instance, book, newPage)
    \/ \E instance \in Instances, book \in OwnedTitlePool :
          RemoteAddOwned(instance, book)
    \/ \E term \in Terms, rawLimit \in LookupLimitEnv,
          failed \in {<<>>} \cup {<< c >> : c \in SearchCalls} :
          SbSearch(term, rawLimit, failed)
    \/ SbReset

SpecOrder == Init /\ [][OrderNext]_vars

\* every record the merge reads, in the order it reads them
MergeRecords ==
    sbLookup["ebook"] \o sbLookup["audio"]
      \o SelectSeq(catalog["ebook"], LAMBDA b : matchesTerm(sbTerm, b))
      \o SelectSeq(catalog["audio"], LAMBDA b : matchesTerm(sbTerm, b))

\* when the merge first read a record of the identity
FirstRead(key) ==
    CHOOSE n \in DOMAIN MergeRecords :
        /\ pickKey(MergeRecords[n]) = key
        /\ \A k \in 1..(n - 1) : pickKey(MergeRecords[k]) # key

\* C15: the returned sequence is in ascending title order, and items whose
\* titles compare equal are in the order in which the merge first read
\* their identities.
C15_TitleOrderStable ==
    sbStatus = "ok" =>
        \A i, j \in DOMAIN sbItems :
            i < j =>
                /\ localeCompare(sbItems[i].title, sbItems[j].title) <= 0
                /\ localeCompare(sbItems[i].title, sbItems[j].title) = 0
                      => FirstRead(sbItems[i].key) < FirstRead(sbItems[j].key)

\* three items: one with a smaller title that the merge read last, in front
\* of two of equal titles and different identities
C15_Witness ==
    /\ sbStatus = "ok"
    /\ Len(sbItems) = 3
    /\ sbItems[2].title = sbItems[3].title
    /\ sbItems[2].key # sbItems[3].key
    /\ FirstRead(sbItems[1].key) > FirstRead(sbItems[3].key)

\* the record is owned by the instance (it has an id and is the only catalog
\* record of its identity there), it is unmonitored, and the term is a
\* substring, case ignored, of its author
OwnedUnmonitoredByAuthor(instance, j) ==
    LET b == catalog[instance][j]
    IN /\ "id" \in DOMAIN b
       /\ "monitored" \in DOMAIN b /\ ~b.monitored
       /\ pickKey(b) # <<>>
       /\ Cardinality(OwnedWith(instance, pickKey(b))) = 1
       /\ normalize(sbTerm) # <<>>
       /\ Includes(normalize(pickAuthor(b)), normalize(sbTerm))

\* the view the claim describes for such a record
UnmonitoredOwnedView(b) ==
    [available |-> TRUE, alreadyAdded |-> FALSE, existingId |-> << b.id >>,
     monitored |-> << FALSE >>, hasFile |-> << hasFile(b) >>, lookup |-> <<>>]

NoLookupRecords == sbLookup["ebook"] = <<>> /\ sbLookup["audio"] = <<>>

\* C16: when neither lookup returned a record and the term is a substring,
\* case ignored, of the author of an owned, unmonitored record of a catalog,
\* the search returns an item of the record's identity whose view for that
\* backend is available, not added, carries the record's id, monitored flag
\* and file flag, and has no lookup record.
C16_UnmonitoredOwnedListed ==
    (sbStatus = "ok" /\ NoLookupRecords) =>
        \A instance \in Instances : \A j \in DOMAIN catalog[instance] :
            OwnedUnmonitoredByAuthor(instance, j) =>
                \E i \in ItemsWith(pickKey(catalog[instance][j])) :
                    ViewOf(sbItems[i], instance) =
                        UnmonitoredOwnedView(catalog[instance][j])

\* the same when no other catalog holds a record of the identity that
\* matches the term
C16_ListedWhenOwnedOnce ==
    (sbStatus = "ok" /\ NoLookupRecords) =>
        \A instance \in Instances : \A j \in DOMAIN catalog[instance] :
            ( /\ OwnedUnmonitoredByAuthor(instance, j)
              /\ \A other \in Instances \ {instance} :
                    \A k \in OwnedWith(other, pickKey(catalog[instance][j])) :
                        ~matchesTerm(sbTerm, catalog[other][k]) ) =>
                \E i \in ItemsWith(pickKey(catalog[instance][j])) :
                    ViewOf(sbItems[i], instance) =
                        UnmonitoredOwnedView(catalog[instance][j])

\* a search with no lookup records that listed an unmonitored record owned
\* by the audio instance alone
C16_ListedReached ==
    /\ sbStatus = "ok" /\ NoLookupRecords
    /\ catalog["ebook"] = <<>>
    /\ \E j \in DOMAIN catalog["audio"] :
          /\ OwnedUnmonitoredByAuthor("audio", j)
          /\ \E i \in ItemsWith(pickKey(catalog["audio"][j])) :
                sbItems[i].audio = UnmonitoredOwnedView(catalog["audio"][j])

(***************************************************************************)
(* Properties of the create path of requestBook                            *)
(***************************************************************************)
CreateMode == rbPc # "idle" /\ rbExistingId = <<>>

\* C17: a requestBook without existingId and without a lookup record has
\* failed with the missing-lookup error and has made no remote call: no
\* root-folder or quality-profile listing and no POST /api/v1/book.
C17_MissingLookupFailsFirst ==
    (CreateMode /\ rbLookup = <<>>) =>
        /\ rbPc = "done"
        /\ rbResult = "error"
        /\ rbError = "missing_lookup"
        /\ rbCalls = <<>>

\* a second request, without existingId and lookup record, for an instance
\* with blank defaults and nothing cached, that failed that way
C17_Witness ==
    /\ CreateMode /\ rbLookup = <<>>
    /\ rbCount = 2
    /\ ~HasExplicitDefaults(rbInstance)
    /\ defaultsCache[rbInstance.baseUrl] = <<>>
    /\ rbError = "missing_lookup"

\* the current invocation is on the create path with a lookup record
Creating == CreateMode /\ rbLookup # <<>>

\* the create calls carry the values resolveDefaults holds for the instance
CreatesWithResolved ==
    \A i \in CreateIdx :
        /\ defaultsCache[rbInstance.baseUrl] # <<>>
        /\ rbCalls[i].body.rootFolderPath =
              defaultsCache[rbInstance.baseUrl][1].value.rootFolderPath
        /\ rbCalls[i].body.qualityProfileId =
              defaultsCache[rbInstance.baseUrl][1].value.qualityProfileId

\* C18 as stated: with both defaults set in the configuration no listing is
\* requested and the create payload carries exactly the configured values;
\* otherwise it carries the values resolveDefaults holds for the instance.
C18_ConfiguredValuesExactly ==
    Creating =>
        IF HasExplicitDefaults(rbInstance)
        THEN /\ ListingIdx = {}
             /\ \A i \in CreateIdx :
                   /\ rbCalls[i].body.rootFolderPath = rbInstance.rootFolderPath
                   /\ rbCalls[i].body.qualityProfileId = rbInstance.qualityProfileId
        ELSE CreatesWithResolved

\* C18 amended: with both defaults set in the configuration no listing is
\* requested and the create payload carries the configured rootFolderPath
\* without its leading and trailing white space and the configured
\* qualityProfileId; otherwise it carries the values resolveDefaults holds
\* for the instance.
C18_ConfiguredValuesTrimmed ==
    Creating =>
        IF HasExplicitDefaults(rbInstance)
        THEN /\ ListingIdx = {}
             /\ \A i \in CreateIdx :
                   /\ rbCalls[i].body.rootFolderPath = Trim(rbInstance.rootFolderPath)
                   /\ rbCalls[i].body.qualityProfileId = rbInstance.qualityProfileId
        ELSE CreatesWithResolved

\* a create call was made for an instance whose configured path ends in a
\* blank, for a lookup record that had its own path and profile
C18_Witness ==
    /\ Creating
    /\ HasExplicitDefaults(rbInstance)
    /\ rbInstance.rootFolderPath # Trim(rbInstance.rootFolderPath)
    /\ "rootFolderPath" \in DOMAIN rbLookup[1]
    /\ CreateIdx # {}

\* a create call was made with values resolveDefaults had listed
C18_ResolvedReached ==
    /\ Creating
    /\ ~HasExplicitDefaults(rbInstance)
    /\ ListingIdx # {}
    /\ CreateIdx # {}

(***************************************************************************)
(* Create requests against remotes whose root folders change               *)
(***************************************************************************)
\* between two requests, a remote's root folders are reconfigured
RemoteSetRootFolders(baseUrl, list) ==
    /\ rbPc = "idle"
    /\ remoteRootFolders[baseUrl] # list
    /\ remoteRootFolders' = [remoteRootFolders EXCEPT ![baseUrl] = list]
    /\ UNCHANGED <<lookupPages, catalog, requestVars, searchVars, lookupVars, raceVars, outerVars>>

\* the caller has taken the outcome of the request
RbReturn ==
    /\ rbPc = "done"
    /\ rbPc' = "idle"
    /\ UNCHANGED <<rbInstance, rbLookup, rbExistingId, monitorSucceeded,
                   searchSucceeded, rbExisting, rbDefaults, rbCalls, rbResult,
                   rbError, rbCount, defaultsCache, now>>
    /\ UNCHANGED <<remoteVars, searchVars, lookupVars, raceVars, outerVars>>

\* create requests; the root-folder listing answers what the remote holds
DefaultsNext ==
    \/ \E baseUrl \in BaseUrls, list \in RootFolderLists :
          RemoteSetRootFolders(baseUrl, list)
    \/ \E instance \in InstanceConfigs, lookup \in LookupArgs :
          RbBegin(instance, lookup, <<>>)
    \/ \E rootOk \in BOOLEAN, profileOk \in BOOLEAN,
          profiles \in QualityProfileLists :
          RbResolve(rootOk, profileOk,
                    remoteRootFolders[rbInstance.baseUrl], profiles)
    \/ \E ok \in BOOLEAN : RbCreate(ok)
    \/ RbReturn
    \/ Tick

SpecDefaults == Init /\ [][DefaultsNext]_vars

\* the current invocation is a create request for an instance with blank
\* defaults whose remote holds no root folder
BlankAndNoRootFolder ==
    /\ Creating
    /\ ~HasExplicitDefaults(rbInstance)
    /\ remoteRootFolders[rbInstance.baseUrl] = <<>>

\* C19 as stated: after any earlier requests, a create request for an
\* instance with blank defaults whose remote root-folder listing is empty
\* issues no POST /api/v1/book and, unless a listing call itself failed,
\* ends with the missing-root-folder configuration error.
C19_EmptyRootListingFails ==
    BlankAndNoRootFolder =>
        /\ rbPc # "create"
        /\ CreateIdx = {}
        /\ (rbPc = "done" /\ ~SomeFailed(ListingIdx)) =>
              (rbResult = "error" /\ rbError = "no_root_folder")

\* C19 amended: such a request that asks the remote for its root folders
\* ends, unless a listing call itself failed, with the missing-root-folder
\* configuration error and issues no POST /api/v1/book; it asks unless
\* resolveDefaults holds values for the base URL, and only then does it
\* issue the POST, with those values and without asking.
C19_EmptyRootListingFailsUnlessCached ==
    BlankAndNoRootFolder =>
        /\ rbPc = "resolve" => defaultsCache[rbInstance.baseUrl] = <<>>
                                \/ now - defaultsCache[rbInstance.baseUrl][1].timestamp
                                      >= 10 * 60 * 1000
        /\ ListingIdx # {} =>
              /\ rbPc = "done"
              /\ CreateIdx = {}
              /\ rbResult = "error"
              /\ ~SomeFailed(ListingIdx) => rbError = "no_root_folder"
        /\ (rbPc = "create" \/ CreateIdx # {}) =>
              /\ ListingIdx = {}
              /\ CreatesWithResolved

\* a second request that asked a remote without root folders and failed,
\* the first request having cached values that have expired since
C19_Witness ==
    /\ BlankAndNoRootFolder
    /\ rbCount = 2
    /\ defaultsCache[rbInstance.baseUrl] # <<>>
    /\ ListingIdx # {}
    /\ rbError = "no_root_folder"

\* a second request that issued the POST with cached values although the
\* remote holds no root folder any more
C19_CachedReached ==
    /\ BlankAndNoRootFolder
    /\ rbCount = 2
    /\ CreateIdx # {}

\* the fields the create payload sets itself
OverriddenFields == {"rootFolderPath", "qualityProfileId", "monitored", "addOptions"}

\* C20: the body of every POST /api/v1/book has the fields of the lookup
\* record and the overridden fields, without id; every other field of the
\* lookup record is unchanged; rootFolderPath and qualityProfileId are the
\* resolved target values, monitored is true and addOptions.searchForNewBook
\* is true.
C20_CreatePayloadShape ==
    Creating =>
        \A i \in CreateIdx :
            LET body == rbCalls[i].body
                lookup == rbLookup[1]
            IN /\ DOMAIN body = (DOMAIN lookup \cup OverriddenFields) \ {"id"}
               /\ \A f \in DOMAIN lookup \ (OverriddenFields \cup {"id"}) :
                     body[f] = lookup[f]
               /\ body.rootFolderPath = rbDefaults[1].rootFolderPath
               /\ body.qualityProfileId = rbDefaults[1].qualityProfileId
               /\ body.monitored = TRUE
               /\ body.addOptions = [searchForNewBook |-> TRUE]

\* a POST /api/v1/book for a lookup record that carried an id and its own
\* path, profile and monitored flag, all different from the payload's
C20_Witness ==
    /\ Creating
    /\ "id" \in DOMAIN rbLookup[1]
    /\ \E i \in CreateIdx :
          /\ rbLookup[1].rootFolderPath # rbCalls[i].body.rootFolderPath
          /\ rbLookup[1].qualityProfileId # rbCalls[i].body.qualityProfileId
          /\ rbLookup[1].monitored # rbCalls[i].body.monitored
          /\ rbCalls[i].ok

(***************************************************************************)
(* Properties of the defaults cache                                        *)
(***************************************************************************)
\* a step in which requestBook starts on the create path and calls
\* resolveDefaults
CallsResolveDefaults ==
    /\ rbCount' = rbCount + 1
    /\ rbExistingId' = <<>>
    /\ rbLookup' # <<>>
    /\ ~HasExplicitDefaults(rbInstance')

\* a step in which the two listing requests of resolveDefaults are answered
ListingsAnswered == rbPc = "resolve" /\ rbPc' # "resolve"

\* C21: a resolveDefaults call made less than 10 minutes after a success for
\* the same base URL returns the cached pair and issues no remote call; a
\* call with no entry, or at or after 10 minutes, queries the remote; a
\* successful resolution replaces the entry of that base URL alone, with the
\* resolved pair and the current time; a failed resolution, and every other
\* step, leaves the cache unchanged.
C21_CacheTenMinutes ==
    [][ /\ CallsResolveDefaults =>
              LET entry == defaultsCache[rbInstance'.baseUrl]
              IN IF entry # <<>> /\ now < entry[1].timestamp + 10 * 60 * 1000
                 THEN /\ rbPc' = "create"
                      /\ rbDefaults' = << entry[1].value >>
                      /\ rbCalls' = <<>>
                      /\ defaultsCache' = defaultsCache
                 ELSE /\ rbPc' = "resolve"
                      /\ defaultsCache' = defaultsCache
        /\ ListingsAnswered =>
              /\ Len(rbCalls') = Len(rbCalls) + 2
              /\ IF rbPc' = "create"
                 THEN /\ defaultsCache'[rbInstance.baseUrl] =
                            << [value |-> rbDefaults'[1], timestamp |-> now] >>
                      /\ \A u \in BaseUrls \ {rbInstance.baseUrl} :
                            defaultsCache'[u] = defaultsCache[u]
                 ELSE /\ rbResult' = "error"
                      /\ defaultsCache' = defaultsCache
        /\ ~ListingsAnswered => defaultsCache' = defaultsCache
      ]_vars

\* a request answered from an entry cached five minutes earlier, without a
\* listing request
C21_Witness ==
    /\ Creating
    /\ ~HasExplicitDefaults(rbInstance)
    /\ rbPc = "create"
    /\ rbCalls = <<>>
    /\ defaultsCache[rbInstance.baseUrl] # <<>>
    /\ now = defaultsCache[rbInstance.baseUrl][1].timestamp + TickMs

\* an entry replaced by a second resolution, ten minutes or more after start
C21_ReplacedReached ==
    /\ Creating
    /\ rbCount = 2
    /\ ListingIdx # {}
    /\ rbPc = "create"
    /\ defaultsCache[rbInstance.baseUrl] # <<>>
    /\ defaultsCache[rbInstance.baseUrl][1].timestamp >= CacheTtlMs
    /\ \A u \in BaseUrls \ {rbInstance.baseUrl} : defaultsCache[u] = <<>>

(***************************************************************************)
(* Overlapping create requests                                             *)
(***************************************************************************)
RaceNext ==
    \/ \E p \in Requests, instance \in RaceInstances, lookup \in RaceLookups :
          RcBegin(p, instance, lookup)
    \/ \E p \in Requests, rootOk \in BOOLEAN, profileOk \in BOOLEAN,
          rootFolders \in RaceRootLists, profiles \in RaceProfileLists :
          RcResolve(p, rootOk, profileOk, rootFolders, profiles)
    \/ \E p \in Requests, ok \in BOOLEAN : RcCreate(p, ok)
    \/ Tick

SpecRace == Init /\ [][RaceNext]_vars

RcListingIdx(p) ==
    {i \in DOMAIN rcCalls[p] : rcCalls[p][i].method = "GET"}

RcCreateIdx(p) ==
    {i \in DOMAIN rcCalls[p] :
        rcCalls[p][i].method = "POST" /\ rcCalls[p][i].path = "/api/v1/book"}

PairOf(body) ==
    [rootFolderPath |-> body.rootFolderPath,
     qualityProfileId |-> body.qualityProfileId]

\* C22: whatever the overlap of create requests, a request makes at most the
\* two listing requests and one POST; the pair in its create payload is a
\* pair that one successful resolution produced, its own if it resolved
\* itself; and a cache entry holds a pair that one resolution produced, the
\* pair of one of the two requests when both resolved for that base URL.
C22_RaceOnlyRepeatsListings ==
    /\ \A p \in Requests :
          /\ Cardinality(RcListingIdx(p)) \in {0, 2}
          /\ Cardinality(RcCreateIdx(p)) <= 1
          /\ \A i \in RcCreateIdx(p) :
                /\ PairOf(rcCalls[p][i].body) \in rcResolved
                /\ rcOwn[p] # <<>> => PairOf(rcCalls[p][i].body) = rcOwn[p][1]
    /\ \A u \in BaseUrls :
          defaultsCache[u] # <<>> =>
              /\ defaultsCache[u][1].value \in rcResolved
              /\ (\A p \in Requests : rcInstance[p].baseUrl = u /\ rcOwn[p] # <<>>)
                    => \E p \in Requests :
                          rcOwn[p] = << defaultsCache[u][1].value >>

\* two requests for one base URL that both resolved, with different pairs,
\* and both submitted their own pair
C22_Witness ==
    /\ rcInstance[1].baseUrl = rcInstance[2].baseUrl
    /\ rcOwn[1] # <<>> /\ rcOwn[2] # <<>>
    /\ rcOwn[1] # rcOwn[2]
    /\ \A p \in Requests :
          /\ RcCreateIdx(p) # {}
          /\ Cardinality(RcListingIdx(p)) = 2
    /\ rcCalls[1][1].ok /\ rcCalls[2][1].ok
    /\ defaultsCache[rcInstance[1].baseUrl][1].value = rcOwn[1][1]

(***************************************************************************)
(* Properties of the identity key                                          *)
(***************************************************************************)
KeySpecNext == PickKeys

SpecKey == Init /\ [][KeySpecNext]_vars

IdentifyingIds == {"foreignBookId", "goodreadsId", "isbn13", "isbn", "asin"}

\* a value as the keys compare it: trimmed, in lower case
Canonical(value) == ToLowerCase(Trim(ToStr(value)))

CanonicalIds(book) ==
    { Canonical(Get(book, f)) : f \in IdentifyingIds } \ { <<>> }

HasChar(s, c) == \E i \in DOMAIN s : s[i] = c

KeysEqual == pkCalls[1].keys[1] = pkCalls[1].keys[2]

\* the two records have the same foreign id and it is not empty
SameForeignId(a, b) ==
    /\ Truthy(Get(a, "foreignBookId"))
    /\ Get(a, "foreignBookId") = Get(b, "foreignBookId")

\* the two records have no ids except one and the same ISBN-13
OnlySameIsbn13(a, b) ==
    /\ \A f \in IdentifyingIds \ {"isbn13"} :
          ~Truthy(Get(a, f)) /\ ~Truthy(Get(b, f))
    /\ Truthy(Get(a, "isbn13"))
    /\ Get(a, "isbn13") = Get(b, "isbn13")

\* the two records differ in each of the seven identifying fields
DifferInEveryField(a, b) ==
    /\ \A f \in IdentifyingIds : Get(a, f) # Get(b, f)
    /\ Get(a, "title") # Get(b, "title")
    /\ pickAuthor(a) # pickAuthor(b)

\* C23 as stated: equal keys for the same non-empty foreign id and for the
\* same ISBN-13 with no other ids; different keys for two records that
\* differ in every identifying field.
C23_EqualAndDistinctKeys ==
    pkCalls # <<>> =>
        LET a == pkCalls[1].left
            b == pkCalls[1].right
        IN /\ SameForeignId(a, b) => KeysEqual
           /\ OnlySameIsbn13(a, b) => KeysEqual
           /\ DifferInEveryField(a, b) => ~KeysEqual

\* C23, amended: equal keys for the same foreign id that is not blank, and for
\* the same non-blank ISBN-13 when every other id is absent or blank;
\* different keys for two records that share no id value in any id field once
\* trimmed and put in lower case, and whose trimmed lower-case titles differ
\* and hold no "|".
C23_KeysAfterNormalizing ==
    pkCalls # <<>> =>
        LET a == pkCalls[1].left
            b == pkCalls[1].right
        IN /\ ( /\ Canonical(Get(a, "foreignBookId")) # <<>>
                /\ Get(a, "foreignBookId") = Get(b, "foreignBookId") )
              => KeysEqual
           /\ ( /\ \A f \in IdentifyingIds \ {"isbn13"} :
                      Canonical(Get(a, f)) = <<>> /\ Canonical(Get(b, f)) = <<>>
                /\ Canonical(Get(a, "isbn13")) # <<>>
                /\ Get(a, "isbn13") = Get(b, "isbn13") )
              => KeysEqual
           /\ ( /\ CanonicalIds(a) \cap CanonicalIds(b) = {}
                /\ Canonical(Get(a, "title")) # Canonical(Get(b, "title"))
                /\ ~HasChar(Canonical(Get(a, "title")), "|")
                /\ ~HasChar(Canonical(Get(b, "title")), "|") )
              => ~KeysEqual

\* two different records with the same foreign id, and two that share nothing
C23_Witness ==
    /\ pkCalls # <<>>
    /\ LET a == pkCalls[1].left
           b == pkCalls[1].right
       IN /\ a.foreignBookId = <<"D"," ">> /\ b.foreignBookId = <<"D"," ">>
          /\ a.title # b.title /\ a.goodreadsId # b.goodreadsId
          /\ pkCalls[1].keys[1] = <<"i","d",":","d">>
          /\ KeysEqual

\* a foreign id of one record is the Goodreads id of the other: every field
\* differs and the keys are equal
C23_SharedValueReached ==
    /\ pkCalls # <<>>
    /\ DifferInEveryField(pkCalls[1].left, pkCalls[1].right)
    /\ KeysEqual
    /\ pkCalls[1].keys[1] # <<>>

(***************************************************************************)
(* Remote calls of one requestBook invocation                              *)
(***************************************************************************)
IsPrefix(s, t) == Len(s) <= Len(t) /\ s = SubSeq(t, 1, Len(s))

CallNames == [i \in DOMAIN rbCalls |-> <<rbCalls[i].method, rbCalls[i].path>>]

RerequestCalls ==
    << <<"POST", "/api/v1/book/monitor">>, <<"POST", "/api/v1/command">>,
       <<"GET", "/api/v1/book/{id}">>, <<"PUT", "/api/v1/book">> >>

CreateCalls ==
    << <<"GET", "/api/v1/rootfolder">>, <<"GET", "/api/v1/qualityprofile">>,
       <<"POST", "/api/v1/book">> >>

Returned == rbPc = "done"

\* C24 as stated: an invocation that reaches the backend issues at least 1
\* and at most 3 remote calls, all against its instance.
C24_OneToThreeCalls ==
    /\ Len(rbCalls) <= 3
    /\ \A i \in DOMAIN rbCalls : rbCalls[i].baseUrl = rbInstance.baseUrl

\* C24, amended: every call goes to the invocation's instance; a re-request
\* issues the monitor call, the search command and, when both failed, the GET
\* and after it the PUT (2 to 4 calls); a create request issues the POST
\* alone, or the two listings and after them the POST (1 to 3 calls).
C24_CallsInOrder ==
    /\ \A i \in DOMAIN rbCalls : rbCalls[i].baseUrl = rbInstance.baseUrl
    /\ rbPc # "idle" =>
          CASE RequestMode(rbLookup, rbExistingId) = "rerequest" ->
                 /\ IsPrefix(CallNames, RerequestCalls)
                 /\ Returned => Len(rbCalls) >= 2
            [] RequestMode(rbLookup, rbExistingId) = "create" ->
                 /\ \/ IsPrefix(CallNames, CreateCalls)
                    \/ CallNames = << <<"POST", "/api/v1/book">> >>
                 /\ Returned => Len(rbCalls) >= 1
                 /\ Len(rbCalls) # 1 \/ Returned \/ rbPc = "create"
            [] OTHER -> rbCalls = <<>>

\* a re-request whose monitor call, search command and PUT all failed
C24_Witness ==
    /\ Returned
    /\ rbInstance.baseUrl = <<"a">>
    /\ CallNames = RerequestCalls
    /\ ~rbCalls[1].ok /\ ~rbCalls[2].ok /\ rbCalls[3].ok /\ ~rbCalls[4].ok

\* a create request that listed root folders and profiles before its POST
C24_ThreeCallsReached ==
    Returned /\ CallNames = CreateCalls /\ rbInstance.baseUrl = <<"a">>

(***************************************************************************)
(* Properties of the catalog index                                         *)
(***************************************************************************)
IndexNext == MapExistingCall

SpecIndex == Init /\ [][IndexNext]_vars

\* the positions of the owned records that have an identity and an id
Indexable(books) ==
    {i \in DOMAIN books : pickKey(books[i]) # <<>> /\ "id" \in DOMAIN books[i]}

LastOf(books, key) ==
    CHOOSE i \in Indexable(books) :
        /\ pickKey(books[i]) = key
        /\ \A j \in Indexable(books) : pickKey(books[j]) = key => j <= i

\* C28: the index has one entry per identity; each entry is the id,
\* monitored and hasFile of the last owned record of that identity that has
\* an id; records without identity or without id add nothing.
C28_LastOwnedRecordWins ==
    meCalls # <<>> =>
        LET books == meCalls[1].books
            keys == meCalls[1].keys
        IN /\ \A i, j \in DOMAIN keys : keys[i].key = keys[j].key => i = j
           /\ {keys[i].key : i \in DOMAIN keys}
                 = {pickKey(books[i]) : i \in Indexable(books)}
           /\ \A i \in DOMAIN keys :
                 LET book == books[LastOf(books, keys[i].key)]
                 IN keys[i].value =
                      [id |-> book.id,
                       monitored |-> IF "monitored" \in DOMAIN book
                                     THEN book.monitored ELSE TRUE,
                       hasFile |-> hasFile(book)]

\* two owned records of one identity around one without id and one without
\* identity: one entry, taken from the later of the two
C28_Witness ==
    /\ meCalls # <<>>
    /\ Len(meCalls[1].books) = 3
    /\ NumberField(meCalls[1].books[1], "id") = 7
    /\ "id" \notin DOMAIN meCalls[1].books[2]
    /\ NumberField(meCalls[1].books[3], "id") = 8
    /\ meCalls[1].keys =
          << [key |-> <<"i","d",":","9","7">>,
              value |-> [id |-> 8, monitored |-> FALSE, hasFile |-> FALSE]] >>

\* a record with an id and no identity is left out
C28_NoIdentityReached ==
    /\ meCalls # <<>>
    /\ Len(meCalls[1].books) = 2
    /\ NumberField(meCalls[1].books[1], "id") = 10
    /\ NumberField(meCalls[1].books[2], "id") = 9
    /\ Len(meCalls[1].keys) = 1

(***************************************************************************)
(* The record of the fallback PUT                                          *)
(***************************************************************************)
ConfiguredFields == {"rootFolderPath", "qualityProfileId"}

\* the body of the PUT and the data of the GET that came before it
PutBody == rbCalls[4].body

\* C29: the record of the fallback PUT is the record the GET of the same
\* invocation returned, with monitored true, rootFolderPath and
\* qualityProfileId as the instance configuration has them and every other
\* field as fetched; the lookup argument has no part in it.
C29_PutIsFetchedRecord ==
    PutIdx # {} =>
        /\ PutIdx = {4} /\ FetchIdx = {3} /\ rbCalls[3].ok
        /\ rbExisting # <<>>
        /\ DOMAIN PutBody \subseteq
              DOMAIN rbExisting[1] \cup {"monitored"} \cup ConfiguredFields
        /\ \A f \in DOMAIN rbExisting[1] \ ({"monitored"} \cup ConfiguredFields) :
              f \in DOMAIN PutBody /\ PutBody[f] = rbExisting[1][f]
        /\ "monitored" \in DOMAIN PutBody /\ PutBody.monitored = TRUE
        /\ \A f \in ConfiguredFields :
              IF f \in DOMAIN rbInstance
              THEN f \in DOMAIN PutBody /\ PutBody[f] = rbInstance[f]
              ELSE f \notin DOMAIN PutBody

\* a re-request that came with a lookup record: the PUT carries the fetched
\* title and id and the configured path, not the lookup's
C29_Witness ==
    /\ PutIdx = {4}
    /\ rbLookup # <<>>
    /\ "rootFolderPath" \in DOMAIN rbLookup[1]
    /\ rbExisting = << [id |-> 5, title |-> <<"A","b">>] >>
    /\ rbInstance.rootFolderPath = <<"/","b"," ">>
    /\ "qualityProfileId" \notin DOMAIN rbInstance
    /\ PutBody = [id |-> 5, title |-> <<"A","b">>, monitored |-> TRUE,
                  rootFolderPath |-> <<"/","b"," ">>]

(***************************************************************************)
(* Properties of the settings store                                        *)
(***************************************************************************)
SettingsNext ==
    \/ \E env \in SettingsEnvs, file \in FileContents : StBoot(env, file)
    \/ GetSettings
    \/ \E settings \in RawSettings : SaveBegin(settings)
    \/ \E ok \in BOOLEAN : SaveWrite(ok)
    \/ SaveReturn
    \/ \E file \in FileContents : FileReplaced(file)

SpecSettings == Init /\ [][SettingsNext]_vars

SettingsCall == stCalls' = stCalls + 1

GetSettingsCall == SettingsCall /\ stLast' = "getSettings"

SaveSettingsCall == SettingsCall /\ stLast' = "saveSettings"

SaveSucceeds == svResult # "ok" /\ svResult' = "ok"

\* the file holds settings that parse
FileHolds == settingsFile # <<>> /\ settingsFile[1].parses

\* one instance of a request body as saveSettings stores it
StoredAs(raw, stored) ==
    /\ \E n \in 0..Len(raw.baseUrl) :
          /\ stored.baseUrl = SubSeq(raw.baseUrl, 1, n)
          /\ \A i \in (n + 1)..Len(raw.baseUrl) : raw.baseUrl[i] = "/"
          /\ n > 0 => raw.baseUrl[n] # "/"
    /\ stored.apiKey = Trim(raw.apiKey)
    /\ stored.rootFolderPath = Trim(raw.rootFolderPath)
    /\ stored.qualityProfileId = ToNumber(raw.qualityProfileId)

\* a request body that the validation turns down
FailsValidation(raw) ==
    \E i \in {"ebooks", "audio"} :
        \/ Trim(raw[i].rootFolderPath) = <<>>
        \/ ToNumber(raw[i].qualityProfileId) <= 0
        \/ \A c \in DOMAIN raw[i].baseUrl : raw[i].baseUrl[c] \in {"/", " "}

\* C30: a getSettings call returns the cached settings when there are any and
\* leaves them alone; without any it returns and caches the settings of the
\* file, or when the file holds none those of the environment; the cached
\* settings change in no step but the first load and the end of a successful
\* saveSettings, which makes them the normalized settings it was given; a
\* saveSettings that fails validation leaves cache and file as they are.
C30_CachedUntilSaved ==
    [][ /\ GetSettingsCall =>
              IF cached # <<>>
              THEN /\ cached' = cached
                   /\ stReturned' = << [configured |-> TRUE, settings |-> cached[1]] >>
              ELSE IF FileHolds
              THEN /\ cached' = << settingsFile[1].value >>
                   /\ stReturned' = << [configured |-> TRUE,
                                         settings |-> settingsFile[1].value] >>
              ELSE IF buildFromEnv(processEnv) # <<>>
              THEN /\ cached' = buildFromEnv(processEnv)
                   /\ stReturned' = << [configured |-> TRUE,
                                         settings |-> cached'[1]] >>
              ELSE cached' = <<>> /\ stReturned' = << [configured |-> FALSE] >>
        /\ (cached # <<>> /\ ~SaveSucceeds) => cached' = cached
        /\ SaveSucceeds =>
              /\ cached' # <<>>
              /\ StoredAs(svInput[1].ebooks, cached'[1].ebooks)
              /\ StoredAs(svInput[1].audio, cached'[1].audio)
              /\ settingsFile = << [parses |-> TRUE, value |-> cached'[1]] >>
        /\ (SaveSettingsCall /\ ~NormalizeThrows(svInput'[1])
               /\ FailsValidation(svInput'[1])) =>
              /\ cached' = cached /\ settingsFile' = settingsFile
              /\ svPc' = "idle" /\ svResult' = "invalid" ]_vars

\* getSettings returned the settings of the environment, then a save of
\* settings that needed normalizing replaced them in the cache
C30_Witness ==
    /\ stCalls = 3
    /\ svResult = "ok"
    /\ buildFromEnv(processEnv) # <<>>
    /\ cached # buildFromEnv(processEnv)
    /\ stReturned = << [configured |-> TRUE, settings |-> buildFromEnv(processEnv)[1]] >>
    /\ cached[1].ebooks = [baseUrl |-> <<"e">>, apiKey |-> <<"k">>,
                           rootFolderPath |-> <<"/","b">>, qualityProfileId |-> 2]
    /\ cached[1].audio.qualityProfileId = 13

\* a save that failed validation after settings were loaded from the file
C30_InvalidReached ==
    /\ svResult = "invalid"
    /\ cached # <<>>
    /\ FileHolds /\ cached = << settingsFile[1].value >>

(***************************************************************************)
(* Properties of the controller                                            *)
(***************************************************************************)
\* AUTH is " s ": config.auth is "s"
AuthValue == <<" ","s"," ">>

\* btoa(s)
RECURSIVE BytesToBase64(_)
BytesToBase64(b) ==
    IF b = <<>> THEN <<>>
    ELSE IF Len(b) = 1
    THEN << Base64Alphabet[(b[1] \div 4) + 1],
            Base64Alphabet[((b[1] % 4) * 16) + 1], "=", "=" >>
    ELSE IF Len(b) = 2
    THEN << Base64Alphabet[(b[1] \div 4) + 1],
            Base64Alphabet[((b[1] % 4) * 16 + b[2] \div 16) + 1],
            Base64Alphabet[((b[2] % 16) * 4) + 1], "=" >>
    ELSE << Base64Alphabet[(b[1] \div 4) + 1],
            Base64Alphabet[((b[1] % 4) * 16 + b[2] \div 16) + 1],
            Base64Alphabet[((b[2] % 16) * 4 + b[3] \div 64) + 1],
            Base64Alphabet[(b[3] % 64) + 1] >>
           \o BytesToBase64(SubSeq(b, 4, Len(b)))

Base64Encode(s) == BytesToBase64([i \in DOMAIN s |-> CharCode(s[i])])

\* Authorization headers a client can send; <<>> is no header
AuthHeaders ==
    { <<>>,
      <<"s">>, <<"t">>, <<" ","s"," ">>,
      BearerPrefix \o <<"s">>, BearerPrefix \o <<" ","s"," ">>,
      BearerPrefix \o <<" ","s">>,
      BearerPrefix \o <<"t">>,
      <<"b","e","a","r","e","r"," ","s">>,
      BasicPrefix \o Base64Encode(<<"u",":","s">>),
      BasicPrefix \o Base64Encode(<<":","s">>),
      BasicPrefix \o Base64Encode(<<"u",":","t">>),
      BasicPrefix \o Base64Encode(<<"u","s">>) }

ApiEnvSettings ==
    [READARR_EBOOKS_URL |-> <<"e">>, READARR_EBOOKS_APIKEY |-> <<"k">>,
     READARR_AUDIO_URL |-> <<"a">>, READARR_AUDIO_APIKEY |-> <<"k">>,
     AUDIO_ROOT_FOLDER |-> <<" ">>]

ApiEnvs ==
    { [AUTH |-> AuthValue],
      ApiEnvSettings @@ [AUTH |-> AuthValue],
      ApiEnvSettings }

\* no file, or one written by hand whose ebooks instance has a blank folder
ApiFiles ==
    { <<>>,
      << [parses |-> TRUE,
          value |-> [ebooks |-> ValidInstance(<<"e">>, <<" ">>),
                     audio |-> ValidInstance(<<"a">>, <<"/","b"," ">>)]] >> }

ApiBook == [title |-> <<"D","u">>, isbn13 |-> <<"9","7">>, edition |-> <<"x">>]

NoBody == [x \in {} |-> 0]

ApiRequestShapes ==
    { [method |-> "GET", path |-> "/api/health", term |-> <<>>, body |-> NoBody],
      [method |-> "GET", path |-> "/api/settings", term |-> <<>>, body |-> NoBody],
      [method |-> "POST", path |-> "/api/settings", term |-> <<>>,
       body |-> [settings |->
                   [ebooks |-> RawInstance(<<"e","/">>, <<" ","k">>, <<"/","b"," ">>, <<"2">>),
                    audio |-> RawInstance(<<"a">>, <<"k">>, <<"/","c">>, <<"3">>)]]],
      [method |-> "POST", path |-> "/api/settings", term |-> <<>>,
       body |-> [settings |->
                   [ebooks |-> RawInstance(<<"e">>, <<"k">>, <<"/","b">>, <<"0">>),
                    audio |-> RawInstance(<<"a">>, <<"k">>, <<"/","b">>, <<"2">>)]]],
      [method |-> "POST", path |-> "/api/settings/test", term |-> <<>>,
       body |-> [instance |-> "ebooks",
                 settings |-> [baseUrl |-> <<"e">>, apiKey |-> <<"k">>]]],
      [method |-> "GET", path |-> "/api/search", term |-> <<" ","D","u">>,
       body |-> NoBody],
      [method |-> "GET", path |-> "/api/search", term |-> <<" ">>, body |-> NoBody],
      [method |-> "POST", path |-> "/api/request/ebook", term |-> <<>>,
       body |-> [book |-> ApiBook]],
      [method |-> "POST", path |-> "/api/request/audiobook", term |-> <<>>,
       body |-> [book |-> ApiBook, existingId |-> 5]],
      [method |-> "POST", path |-> "/api/request/audiobook", term |-> <<>>,
       body |-> NoBody],
      [method |-> "GET", path |-> "/api/books", term |-> <<>>, body |-> NoBody] }

\* every header on the routes that read and that request, two on the others
ApiRequests ==
    { shape @@ [authorization |-> header] :
        shape \in { r \in ApiRequestShapes :
                      r.path \in {"/api/settings", "/api/request/ebook"}
                      /\ r.method = IF r.path = "/api/settings" THEN "GET" ELSE "POST" },
        header \in AuthHeaders }
    \cup { shape @@ [authorization |-> header] :
             shape \in ApiRequestShapes,
             header \in {<<"t">>, BearerPrefix \o <<"s">>} }

ApiNext ==
    \/ \E env \in ApiEnvs, file \in ApiFiles : StBoot(env, file)
    \/ \E req \in ApiRequests : ApiReceive(req)
    \/ ApiRequestBook
    \/ \E ok \in BOOLEAN : RbMonitor(ok)
    \/ \E ok \in BOOLEAN : RbSearch(ok)
    \/ \E ok \in BOOLEAN, book \in FetchedBooks : RbFetch(ok, book)
    \/ \E ok \in BOOLEAN : RbPut(ok)
    \/ \E rootOk \in BOOLEAN, profileOk \in BOOLEAN,
          rootFolders \in RootFolderLists, profiles \in QualityProfileLists :
          RbResolve(rootOk, profileOk, rootFolders, profiles)
    \/ \E ok \in BOOLEAN : RbCreate(ok)
    \/ ApiRequestDone
    \/ \E rawLimit \in LookupLimitEnv, failed \in {<<>>, << "ebookLookup" >>} :
          ApiSearch(rawLimit, failed)
    \/ ApiSearchDone
    \/ \E ok \in BOOLEAN : SaveWrite(ok)
    \/ SaveReturn
    \/ ApiSaved
    \/ \E ok \in BOOLEAN : ApiTested(ok)

SpecApi == Init /\ [][ApiNext]_vars

AuthConfigured == stPc = "up" /\ ConfigAuth # <<>>

\* username:auth, written in base64 the way btoa writes it
IsBasicOf(header, auth) ==
    /\ StartsWith(header, BasicPrefix)
    /\ LET decoded == Base64Decode(Slice(header, 6))
       IN /\ Slice(header, 6) = Base64Encode(decoded)
          /\ \E k \in DOMAIN decoded :
                /\ decoded[k] = ":"
                /\ \A j \in 1..(k - 1) : decoded[j] # ":"
                /\ SubSeq(decoded, k + 1, Len(decoded)) = auth

\* one of the three headers, for AUTH as it is set or as it is kept
NamedHeader(header) ==
    \E auth \in {ToStr(Get(processEnv, "AUTH")), ConfigAuth} :
        \/ header = BearerPrefix \o auth
        \/ header = auth
        \/ IsBasicOf(header, auth)

\* the header with the white space around its token taken away
TokenTrimmed(header) ==
    IF StartsWith(header, BasicPrefix) THEN header
    ELSE IF StartsWith(header, BearerPrefix)
    THEN BearerPrefix \o Trim(Slice(header, 7))
    ELSE Trim(header)

NamedOrPaddedHeader(header) == NamedHeader(TokenTrimmed(header))

\* the request last received is for a route behind the authorization check
BehindAuth ==
    /\ AuthConfigured
    /\ apiRequest # <<>>
    /\ apiRequest[1].path # "/api/health"

Answered401 == apiPc = "idle" /\ apiResponse = << [status |-> 401] >>

\* what the step that gives an answer leaves as it was
NoBackendCallNoSettingsChange ==
    /\ apiCalls' = <<>>
    /\ UNCHANGED <<requestVars, remoteVars, searchVars, lookupVars, settingsVars>>

C27_PaddedBearerReached ==
    /\ BehindAuth
    /\ apiRequest[1].authorization = BearerPrefix \o <<" ","s">>
    /\ rbPc = "done"
    /\ rbCalls # <<>>

\* a Basic header with a user name has reached getSettings
C27_BasicReached ==
    /\ BehindAuth
    /\ apiRequest[1].path = "/api/settings"
    /\ apiRequest[1].authorization = BasicPrefix \o <<"d","T","p","z">>
    /\ apiResponse # <<>>
    /\ apiResponse[1].status = 200

(***************************************************************************)
(* Properties of the client                                                *)
(***************************************************************************)
ClientEnv == ApiEnvSettings @@ [AUTH |-> AuthValue]

ClientTokens == { <<"s">>, <<"t">> }

ClientTerms == { <<"D","u","n">>, <<"D","u"," ">> }

ClientBook == [title |-> <<"D","u","n">>, isbn13 |-> <<"9","7">>]

\* an unmonitored record of that book, and a record the lookup does not give
ClientOwnedPool ==
    { [id |-> 8, title |-> <<"D","u","n">>, isbn13 |-> <<"9","7">>,
       monitored |-> FALSE, statistics |-> [bookFileCount |-> 1, sizeOnDisk |-> 0]],
      [id |-> 9, title |-> <<"D","u","n","e">>] }

ClientNext ==
    \/ StBoot(ClientEnv, <<>>)
    \/ \E instance \in Instances :
          clFetches = 0 /\ RemoteAddLookup(instance, ClientBook, FALSE)
    \/ \E book \in ClientOwnedPool :
          clFetches = 0 /\ RemoteAddOwned("ebook", book)
    \/ ClMount
    \/ \E token \in ClientTokens : ClSetAuthToken(token)
    \/ ClSend
    \/ ClSettingsLoaded
    \/ \E term \in ClientTerms : ClHandleSearch(term)
    \/ \E rawLimit \in LookupLimitEnv, failed \in {<<>>, << "ebookLookup" >>} :
          ApiSearch(rawLimit, failed)
    \/ ApiSearchDone
    \/ ClSearchDone
    \/ \E i \in 1..MaxRecords, instance \in Instances : ClRequestBook(i, instance)
    \/ ApiRequestBook
    \/ \E ok \in BOOLEAN : RbCreate(ok)
    \/ ApiRequestDone
    \/ ClRequestDone

SpecClient == Init /\ [][ClientNext]_vars

\* the fetch in front is a request action whose answer the step consumes
RequestAnswerTaken(ok) ==
    /\ HeadAnswered("request")
    /\ (apiResponse[1].status = 200) = ok
    /\ clPending' = Tail(clPending)

\* the fetch in front is a search whose answer, a failure, the step consumes
SearchFailureTaken ==
    /\ HeadAnswered("search")
    /\ apiResponse[1].status # 200
    /\ clPending' = Tail(clPending)

TakenKey == buildRequestKey(clPending[1].key, clPending[1].instance)

\* the entry as it is but for the flag of one instance view
WithFlag(entry, instance) ==
    IF instance = "ebook"
    THEN [key |-> entry.key, title |-> entry.title, author |-> entry.author,
          isbn13 |-> entry.isbn13, foreignBookId |-> entry.foreignBookId,
          goodreadsId |-> entry.goodreadsId, audio |-> entry.audio,
          ebook |-> [available |-> entry.ebook.available, alreadyAdded |-> TRUE,
                     existingId |-> entry.ebook.existingId,
                     monitored |-> entry.ebook.monitored,
                     hasFile |-> entry.ebook.hasFile,
                     lookup |-> entry.ebook.lookup]]
    ELSE [key |-> entry.key, title |-> entry.title, author |-> entry.author,
          isbn13 |-> entry.isbn13, foreignBookId |-> entry.foreignBookId,
          goodreadsId |-> entry.goodreadsId, ebook |-> entry.ebook,
          audio |-> [available |-> entry.audio.available, alreadyAdded |-> TRUE,
                     existingId |-> entry.audio.existingId,
                     monitored |-> entry.audio.monitored,
                     hasFile |-> entry.audio.hasFile,
                     lookup |-> entry.audio.lookup]]

OtherRequestStatesKept ==
    /\ DOMAIN clRequestState' = DOMAIN clRequestState \cup {TakenKey}
    /\ \A k \in DOMAIN clRequestState \ {TakenKey} :
          clRequestState'[k] = clRequestState[k]

\* C26: a failed search empties the result list and sets the error message;
\* a failed request action leaves the result list as it was and sets the
\* request state of its item and instance, and no other, to error; a
\* successful request action changes nothing in the result list but the
\* alreadyAdded flag of that item's view of that instance.
C26_ClientFrames ==
    [][/\ SearchFailureTaken => clResults' = <<>> /\ clError' # <<>>
       /\ RequestAnswerTaken(FALSE) =>
             /\ clResults' = clResults
             /\ clRequestState'[TakenKey] = "error"
             /\ OtherRequestStatesKept
       /\ RequestAnswerTaken(TRUE) =>
             /\ Len(clResults') = Len(clResults)
             /\ \A i \in DOMAIN clResults :
                   clResults'[i] =
                      IF clResults[i].key = clPending[1].key
                      THEN WithFlag(clResults[i], clPending[1].instance)
                      ELSE clResults[i]
             /\ OtherRequestStatesKept]_vars

\* a request action has failed while another one of the same list is under way
C26_Witness ==
    /\ clResults # <<>>
    /\ clError # <<>>
    /\ \E k1, k2 \in DOMAIN clRequestState :
          clRequestState[k1] = "error" /\ clRequestState[k2] = "loading"

\* a request action has succeeded on an item that has both views
C26_SuccessReached ==
    /\ \E i \in DOMAIN clResults :
          /\ clResults[i].ebook.alreadyAdded /\ clResults[i].ebook.existingId = <<>>
          /\ clResults[i].audio.available /\ ~clResults[i].audio.alreadyAdded
    /\ \E k \in DOMAIN clRequestState : clRequestState[k] = "success"

\* a search has failed with a remote out of reach
C26_SearchFailedReached ==
    /\ clResults = <<>>
    /\ clError = << 502 >>
    /\ ~clLoading
    /\ clFetches >= 3

\* the controller has taken the request of a button whose view holds an
\* owned record that is not complete
ReRequestPressed ==
    /\ HeadSent
    /\ clPending[1].kind = "request"
    /\ clPending[1].existingId # <<>>

IsCreateCall(call) == call.method = "POST" /\ call.path = "/api/v1/book"

\* C25: a request action on a view that holds an owned record that is not
\* complete sends that record's id, requestBook gets it and runs as a
\* re-request, and no create call is made.
C25_PressedViewIsReRequested ==
    ReRequestPressed =>
       /\ ExistingIdOf(apiRequest[1].body) = clPending[1].existingId
       /\ rbPc # "idle" =>
             /\ rbExistingId = clPending[1].existingId
             /\ RequestMode(rbLookup, rbExistingId) = "rerequest"
             /\ \A i \in DOMAIN rbCalls : ~IsCreateCall(rbCalls[i])

\* the list shows a view of an owned, incomplete record without a lookup
\* record, and its button is not disabled
C25_NoLookupButtonReached ==
    \E i \in DOMAIN clResults :
        /\ clResults[i].ebook.existingId # <<>>
        /\ clResults[i].ebook.lookup = <<>>
        /\ ButtonEnabled(clResults[i], "ebook")

\* a create call has gone out for a view that holds an owned record
C25_CreateCallReached ==
    /\ ReRequestPressed
    /\ rbPc = "done"
    /\ \E i \in DOMAIN rbCalls : IsCreateCall(rbCalls[i])

====
